---- MODULE Spec2Model ----
(***************************************************************************)
(* A model of kanbn (samgiz/kanbn): the task store (index + task files)    *)
(* driven by the Kanbn class, and the pure query functions of the index    *)
(* (sortTasks, filterTasks, taskProgress).                                  *)
(*                                                                         *)
(* Strings are sequences of one-character strings.  An optional value      *)
(* (a key that may be missing from a JS object) is <<>> when missing and   *)
(* <<v>> when present.                                                     *)
(***************************************************************************)
EXTENDS Integers, Sequences, FiniteSets, TLC

(***************************************************************************)
(* Bounds of the model.                                                    *)
(***************************************************************************)
\* the clock (new Date()) runs over 0..MaxTime
MaxTime == 1
\* number of store operations in one behaviour
MaxOps == 3

None == <<>>
Some(v) == <<v>>
Has(o) == o # <<>>
Val(o) == o[1]

Min(a, b) == IF a <= b THEN a ELSE b
Max(a, b) == IF a >= b THEN a ELSE b

Range(s) == {s[i] : i \in 1..Len(s)}

\* Array.prototype.indexOf, 0-based, -1 when missing
IndexOf(s, x) ==
  IF x \in Range(s) THEN (CHOOSE i \in 1..Len(s) : s[i] = x /\ \A j \in 1..(i-1) : s[j] # x) - 1
  ELSE 0 - 1

\* Array.prototype.filter(t => t !== x)
RECURSIVE Without(_, _)
Without(s, x) ==
  IF s = <<>> THEN <<>>
  ELSE IF Head(s) = x THEN Without(Tail(s), x)
  ELSE <<Head(s)>> \o Without(Tail(s), x)

(***************************************************************************)
(* utility.paramCase / getTaskId                                           *)
(***************************************************************************)
IsUpper(c) == c \in {"A", "B"}
ToLower(c) == IF c = "A" THEN "a" ELSE IF c = "B" THEN "b" ELSE c
\* members of the separator class [\s!?.,@:;|\\/"'`£$%\^&*{}[\]()<>~#+\-=_¬]
IsSeparator(c) == c \in {" ", "-", "_", "."}

LowerSeq(s) == [i \in 1..Len(s) |-> ToLower(s[i])]

\* first position after the run of upper-case letters that starts at k
RECURSIVE UpperRunEnd(_, _)
UpperRunEnd(s, k) ==
  IF k <= Len(s) /\ IsUpper(s[k]) THEN UpperRunEnd(s, k + 1) ELSE k

\* s.replace(/([A-Z]+(.))/g, (_, sep, letter, offset) => (offset ? '-' + sep : sep).toLowerCase())
\* scanning from position k (1-based; the match offset is k - 1)
RECURSIVE ReplaceUpper(_, _)
ReplaceUpper(s, k) ==
  IF k > Len(s) THEN <<>>
  ELSE IF ~IsUpper(s[k]) THEN <<s[k]>> \o ReplaceUpper(s, k + 1)
  ELSE LET e == UpperRunEnd(s, k)
           \* [A-Z]+ is greedy and (.) needs one more character: the match ends at
           \* e when a character follows the run, else the run gives its last letter back
           m == IF e <= Len(s) THEN e ELSE Len(s)
       IN IF m = k
          THEN <<s[k]>> \o ReplaceUpper(s, k + 1)
          ELSE (IF k > 1 THEN <<"-">> ELSE <<>>) \o LowerSeq(SubSeq(s, k, m))
                 \o ReplaceUpper(s, m + 1)

\* .split(/[separators]+/g).join('-'): every maximal run of separators becomes one '-'
RECURSIVE Hyphenate(_, _)
Hyphenate(s, k) ==
  IF k > Len(s) THEN <<>>
  ELSE IF IsSeparator(s[k])
       THEN (IF k > 1 /\ IsSeparator(s[k - 1]) THEN <<>> ELSE <<"-">>) \o Hyphenate(s, k + 1)
       ELSE <<s[k]>> \o Hyphenate(s, k + 1)

\* .replace(/(^-|-$)/g, '')
StripHyphens(s) ==
  LET a == IF Len(s) > 0 /\ s[1] = "-" THEN Tail(s) ELSE s
  IN IF Len(a) > 0 /\ a[Len(a)] = "-" THEN SubSeq(a, 1, Len(a) - 1) ELSE a

paramCase(s) == StripHyphens(Hyphenate(ReplaceUpper(s, 1), 1))

getTaskId(name) == paramCase(name)

(***************************************************************************)
(* Values of task fields as the sorter sees them.  A value is a record     *)
(* [kind, v, obj]: a string (v a sequence of characters), a number or a    *)
(* Date (v the timestamp).  Two Date objects are never the same object:    *)
(* obj names the object, and is <<>> for primitive values.                   *)
(***************************************************************************)
StrV(s) == [kind |-> "string", v |-> s, obj |-> <<>>]
NumV(n) == [kind |-> "number", v |-> n, obj |-> <<>>]
DateV(t, o) == [kind |-> "date", v |-> t, obj |-> o]

\* a === b
StrictEq(a, b) == a.kind = b.kind /\ a.obj = b.obj /\ a.v = b.v

CharRank(c) ==
  CASE ToLower(c) = "-" -> 0
    [] ToLower(c) = " " -> 1
    [] ToLower(c) = "a" -> 2
    [] ToLower(c) = "b" -> 3
    [] OTHER -> 4

\* a.localeCompare(b, undefined, { sensitivity: 'accent' }): letters that differ only
\* in case compare equal
RECURSIVE localeCompare(_, _)
localeCompare(a, b) ==
  IF a = <<>> /\ b = <<>> THEN 0
  ELSE IF a = <<>> THEN 0 - 1
  ELSE IF b = <<>> THEN 1
  ELSE IF CharRank(Head(a)) # CharRank(Head(b)) THEN CharRank(Head(a)) - CharRank(Head(b))
  ELSE localeCompare(Tail(a), Tail(b))

Undefined == [kind |-> "undefined", v |-> 0, obj |-> <<>>]

\* typeof x, as far as coerceUndefined tells the types apart
TypeOf(a) == a.kind

\* utility.coerceUndefined(a, type)
coerceUndefined(a, type) ==
  IF a.kind = "undefined" THEN (IF type = "string" THEN StrV(<<>>) ELSE NumV(0)) ELSE a

\* the number a value becomes under the subtraction a - b ('' is 0, a Date its time)
ToNumber(a) == IF a.kind = "string" THEN 0 ELSE a.v

compareValues(a, b) ==
  IF a.kind = "undefined" /\ b.kind = "undefined" THEN 0
  ELSE LET a1 == coerceUndefined(a, TypeOf(b))
           b1 == coerceUndefined(b, TypeOf(a1))
       IN IF a1.kind = "string" /\ b1.kind = "string" THEN localeCompare(a1.v, b1.v)
          ELSE ToNumber(a1) - ToNumber(b1)

(***************************************************************************)
(* Sorter.sortTasks.  A sortable task is a function from field names to    *)
(* values.  A sorter is [field, filter, order]; the filter is <<>> (none,  *)
(* the empty string) or a sequence of characters cs standing for the       *)
(* regular expression [cs] (a character class, no capture group).          *)
(***************************************************************************)
\* sortFilter(value, filter): the matches of /[cs]/gi in value, concatenated
RECURSIVE MatchAll(_, _)
MatchAll(s, cs) ==
  IF s = <<>> THEN <<>>
  ELSE IF ToLower(Head(s)) \in {ToLower(c) : c \in Range(cs)}
       THEN <<Head(s)>> \o MatchAll(Tail(s), cs)
       ELSE MatchAll(Tail(s), cs)

sortFilter(value, filter) == StrV(MatchAll(value.v, filter))

\* the value a sorter reads from a task
SorterValue(sorter, a) ==
  IF sorter.filter # <<>> THEN sortFilter(a[sorter.field], sorter.filter) ELSE a[sorter.field]

\* the comparison callback handed to Array.prototype.sort
RECURSIVE compareTasks(_, _, _)
compareTasks(sorters, a, b) ==
  IF sorters = <<>> THEN 0
  ELSE LET sorter == Head(sorters)
           compareA == SorterValue(sorter, a)
           compareB == SorterValue(sorter, b)
       IN IF StrictEq(compareA, compareB) THEN compareTasks(Tail(sorters), a, b)
          ELSE IF sorter.order = "descending" THEN compareValues(compareB, compareA)
          ELSE compareValues(compareA, compareB)

\* Array.prototype.sort is stable: each task is inserted, in input order, behind the
\* tasks already placed that it does not sort before
RECURSIVE Insert(_, _, _)
Insert(sorters, s, x) ==
  IF s = <<>> THEN <<x>>
  ELSE IF compareTasks(sorters, x, s[Len(s)]) < 0
       THEN Append(Insert(sorters, SubSeq(s, 1, Len(s) - 1), x), s[Len(s)])
       ELSE Append(s, x)

RECURSIVE SortPrefix(_, _, _)
SortPrefix(tasks, sorters, n) ==
  IF n = 0 THEN <<>> ELSE Insert(sorters, SortPrefix(tasks, sorters, n - 1), tasks[n])

sortTasks(tasks, sorters) == SortPrefix(tasks, sorters, Len(tasks))

(***************************************************************************)
(* The store: the index file and the task files, as the Kanbn class reads  *)
(* and writes them.                                                        *)
(***************************************************************************)
VARIABLES
  columns,        \* index.columns: column name -> list of task ids
  columnSorting,  \* index.options.columnSorting: column name -> None | Some(sorters)
  customFields,   \* index.options.customFields: list of [name, type, updateDate, value]
  files,          \* the tasks folder: task id -> None | Some(task data)
  now,            \* the clock read by new Date()
  ops,            \* number of store operations the behaviour may still perform
  lastOp,         \* the last store operation and what it was called with
  call            \* a call of a function of the query engine: [fn, args, result]

storeVars == <<columns, columnSorting, customFields, files, now, ops, lastOp>>

\* the columns of the index, in the order of the index file
ColumnNames == <<"c1", "c2", "c3">>
ColumnSet == Range(ColumnNames)

\* index.options.startedColumns / completedColumns (as the test fixtures set them)
startedColumns == <<"c2">>
completedColumns == <<"c3">>
\* index.options.testColumns: the columns the fixtures link to the custom field "test"
testColumns == <<"c2", "c3">>

\* task names handed to createTask / renameTask / updateTask
TaskNames == {<<"a">>, <<"b">>, <<"A">>, <<"a", " ">>}
BlankName == <<>>
TaskIds == {getTaskId(n) : n \in TaskNames}

\* metadata.customFields keys that the column-linked update can write
CustomFieldKeys == {"completed", "started", "test"}

\* a declared custom field
CustomField(name, type, updateDate, value) ==
  [name |-> name, type |-> type, updateDate |-> updateDate, value |-> value]

\* the update policies of a date field; "" is no policy
UpdatePolicies == {"once", "always", ""}

\* options.customFields the model runs under: the fixtures' declaration of a date
\* field (its columns are the option testColumns), the same with the column list
\* given as the value of a custom field named testColumns, and column lists for
\* started / completed given as custom fields
CustomFieldConfigs ==
  { << CustomField("test", "date", u, <<>>) >> : u \in UpdatePolicies }
  \cup { << CustomField("test", "date", u, <<>>),
            CustomField("testColumns", "string", "", testColumns) >> : u \in UpdatePolicies }
  \cup { << CustomField("startedColumns", "string", "", startedColumns),
            CustomField("completedColumns", "string", "", completedColumns) >> }

\* sorter lists handed to sort
Sorter(field, filter, order) == [field |-> field, filter |-> filter, order |-> order]
SorterLists ==
  { << Sorter("id", <<>>, "ascending") >>,
    << Sorter("id", <<>>, "descending") >>,
    << Sorter("created", <<>>, "ascending"), Sorter("id", <<>>, "descending") >> }

\* task data with no metadata but the name
NewTaskData(name) ==
  [name |-> name, created |-> None, updated |-> None, started |-> None, completed |-> None,
   customFields |-> [k \in CustomFieldKeys |-> None]]

(***************************************************************************)
(* Index                                                                   *)
(***************************************************************************)
\* Index.contains
contains(cols, taskId) == \E c \in ColumnSet : taskId \in Range(cols[c])

\* Index.findTaskColumn: the first column, in index order, that holds the id
findTaskColumn(cols, taskId) ==
  IF contains(cols, taskId)
  THEN ColumnNames[CHOOSE i \in 1..Len(ColumnNames) :
         /\ taskId \in Range(cols[ColumnNames[i]])
         /\ \A j \in 1..(i - 1) : taskId \notin Range(cols[ColumnNames[j]])]
  ELSE "null"

\* Array.prototype.splice(start, 0, x)
Splice(s, start, x) ==
  LET k == IF start < 0 THEN Max(Len(s) + start, 0) ELSE Min(start, Len(s))
  IN SubSeq(s, 1, k) \o <<x>> \o SubSeq(s, k + 1, Len(s))

\* Index.addTask that adds nothing
addTaskKept(cols, taskId, columnName, position) == cols

\* Index.addTask; position is None (null) or Some(number)
addTask(cols, taskId, columnName, position) ==
  [cols EXCEPT ![columnName] =
     IF position = None THEN Append(@, taskId) ELSE Splice(@, Val(position), taskId)]

\* Index.removeTask that removes nothing
removeTaskKept(cols, taskId) == cols

\* Index.removeTask
removeTask(cols, taskId) == [c \in ColumnSet |-> Without(cols[c], taskId)]

\* Index.renameTask
\* a rename that takes the old id out and appends the new one to the column
renameTaskInIndexAppended(cols, taskId, newTaskId) ==
  [c \in ColumnSet |->
     IF taskId \in Range(cols[c])
     THEN SelectSeq(cols[c], LAMBDA id : id # taskId) \o <<newTaskId>>
     ELSE cols[c]]

renameTaskInIndex(cols, taskId, newTaskId) ==
  [c \in ColumnSet |-> [i \in 1..Len(cols[c]) |-> IF cols[c][i] = taskId THEN newTaskId ELSE cols[c][i]]]

\* Index.getTrackedTaskIds(columnName): a Set, in insertion order
RECURSIVE Dedupe(_)
Dedupe(s) ==
  IF s = <<>> THEN <<>>
  ELSE LET r == Dedupe(SubSeq(s, 1, Len(s) - 1))
       IN IF s[Len(s)] \in Range(r) THEN r ELSE Append(r, s[Len(s)])

getTrackedTaskIds(cols, columnName) == Dedupe(cols[columnName])

\* the columns of the index, one after the other
RECURSIVE flatColumns(_, _)
flatColumns(cols, names) ==
  IF names = <<>> THEN <<>> ELSE cols[Head(names)] \o flatColumns(cols, Tail(names))

\* Index.getTrackedTaskIds() with no column name
getAllTrackedTaskIds(cols) == Dedupe(flatColumns(cols, ColumnNames))

\* Index.updateColumnLinkedCustomField
updateColumnLinkedCustomField(cfs, taskData, columnName, fieldName, updateCriteria, t) ==
  LET columnList == fieldName \o "Columns"
      found == {i \in 1..Len(cfs) : cfs[i].name = columnList}
      columnListIndex == IF found = {} THEN 0 - 1
                         ELSE (CHOOSE i \in found : \A j \in found : i <= j) - 1
  IN IF columnListIndex # 0 - 1 /\ columnName \in Range(cfs[columnListIndex + 1].value)
     THEN CASE updateCriteria = "always" ->
                 [taskData EXCEPT !.customFields[fieldName] = Some(t)]
            [] updateCriteria = "once" ->
                 IF ~Has(taskData.customFields[fieldName])
                 THEN [taskData EXCEPT !.customFields[fieldName] = Some(t)]
                 ELSE taskData
            [] OTHER -> taskData
     ELSE taskData

\* the loop of Index.updateColumnLinkedCustomFields over the declared fields
RECURSIVE updateDeclaredFields(_, _, _, _, _)
updateDeclaredFields(cfs, i, taskData, columnName, t) ==
  IF i > Len(cfs) THEN taskData
  ELSE updateDeclaredFields(cfs, i + 1,
         IF cfs[i].type = "date"
         THEN updateColumnLinkedCustomField(cfs, taskData, columnName, cfs[i].name,
                IF cfs[i].updateDate = "" THEN "none" ELSE cfs[i].updateDate, t)
         ELSE taskData,
         columnName, t)

\* Index.updateColumnLinkedCustomFields
updateColumnLinkedCustomFields(cfs, taskData, columnName, t) ==
  LET d1 == updateColumnLinkedCustomField(cfs, taskData, columnName, "completed", "once", t)
      d2 == updateColumnLinkedCustomField(cfs, d1, columnName, "started", "once", t)
  IN updateDeclaredFields(cfs, 1, d2, columnName, t)

(***************************************************************************)
(* Task files                                                              *)
(***************************************************************************)
\* parse-task md2json: the task record decoded from a task file; its id is derived
\* from the name
decodeTask(text) ==
  [id |-> getTaskId(text.name), name |-> text.name, created |-> text.created,
   updated |-> text.updated, started |-> text.started, completed |-> text.completed,
   customFields |-> text.customFields]

\* parse-task json2md: the file text of a task record
encodeTask(taskData) ==
  [name |-> taskData.name, created |-> taskData.created, updated |-> taskData.updated,
   started |-> taskData.started, completed |-> taskData.completed,
   customFields |-> taskData.customFields]

\* fs.existsSync(getTaskPath(tasksFolder, taskId))
taskFileExists(fs, taskId) == taskId \in DOMAIN fs /\ Has(fs[taskId])

\* Kanbn.findUntrackedTasks: the names of the files of the tasks folder that are not
\* among the tracked ids of the index
findUntrackedTasks(cols, fs) ==
  LET trackedTasks == Range(getAllTrackedTaskIds(cols))
      untrackedTasks == {taskId \in DOMAIN fs : Has(fs[taskId])}
  IN {x \in untrackedTasks : x \notin trackedTasks}

\* Kanbn.loadTask
loadTask(fs, taskId) == decodeTask(Val(fs[taskId]))

\* Kanbn.saveTask
saveTask(fs, taskId, taskData) == [fs EXCEPT ![taskId] = Some(encodeTask(taskData))]

\* Kanbn.loadAllTrackedTasks(index, columnName)
loadAllTrackedTasksOfIndex(cols, fs, columnName) ==
  LET ids == getAllTrackedTaskIds(cols)
  IN [i \in 1..Len(ids) |-> loadTask(fs, ids[i])]

loadAllTrackedTasks(cols, fs, columnName) ==
  LET ids == getTrackedTaskIds(cols, columnName)
  IN [i \in 1..Len(ids) |-> loadTask(fs, ids[i])]

\* what Kanbn.loadTask throws, "" when it returns: the file cannot be read, or it
\* has no name heading
loadTaskError(fs, taskId) ==
  IF ~taskFileExists(fs, taskId) THEN "Couldn't access task file"
  ELSE IF Val(fs[taskId]).name = BlankName
       THEN "Unable to parse task: data is missing a name heading"
       ELSE ""

\* what loading the tasks, one after the other, throws
RECURSIVE loadTasksError(_, _)
loadTasksError(fs, ids) ==
  IF ids = <<>> THEN ""
  ELSE IF loadTaskError(fs, Head(ids)) # "" THEN loadTaskError(fs, Head(ids))
       ELSE loadTasksError(fs, Tail(ids))

\* the sortable copy of a task made by Index.sortColumn
Sortable(task) ==
  [id |-> StrV(task.id),
   name |-> StrV(task.name),
   created |-> IF Has(task.created) THEN DateV(Val(task.created), task.id) ELSE StrV(<<>>)]

\* Index.sortColumn: the new content of the column
sortColumn(tasks, sorters) ==
  LET sorted == sortTasks([i \in 1..Len(tasks) |-> Sortable(tasks[i])], sorters)
  IN [i \in 1..Len(sorted) |-> sorted[i].id.v]

\* what Kanbn.saveIndex throws before it writes: a task of a column with sorters
\* cannot be loaded
RECURSIVE saveIndexError(_, _, _, _)
saveIndexError(cols, sorting, fs, names) ==
  IF names = <<>> THEN ""
  ELSE IF Has(sorting[Head(names)])
          /\ loadTasksError(fs, getTrackedTaskIds(cols, Head(names))) # ""
       THEN loadTasksError(fs, getTrackedTaskIds(cols, Head(names)))
       ELSE saveIndexError(cols, sorting, fs, Tail(names))

\* Kanbn.saveIndex that writes the columns as they are
saveIndexAsIs(cols, sorting, fs) == cols

\* Kanbn.saveIndex: the columns written to the index file
saveIndex(cols, sorting, fs) ==
  [c \in ColumnSet |->
     IF Has(sorting[c]) THEN sortColumn(loadAllTrackedTasks(cols, fs, c), Val(sorting[c]))
     ELSE cols[c]]

(***************************************************************************)
(* Kanbn operations.  A call that throws before it writes changes nothing  *)
(* and is not a step.  What an operation writes is a record [files,        *)
(* columns]: the tasks folder and the columns of the saved index.          *)
(***************************************************************************)
\* the behaviour may perform one more operation
MayAct == ops > 0

\* the operation that ran, and what it was called with
Op(name, taskId, columnName) ==
  [op |-> name, id |-> taskId, column |-> columnName, position |-> None, relative |-> FALSE]

Written(result, op) ==
  /\ files' = result.files
  /\ columns' = result.columns
  /\ ops' = ops - 1
  /\ lastOp' = op
  /\ call' = call

\* a task file is written, the index is changed and saved
saved(fs, cols, sorting) == [files |-> fs, columns |-> saveIndex(cols, sorting, fs)]

\* what Kanbn.createTask writes
createTaskResult(name, columnName) ==
  saved(saveTask(files, getTaskId(name),
                 updateColumnLinkedCustomFields(customFields,
                   [NewTaskData(name) EXCEPT !.created = Some(now)], columnName, now)),
        addTask(columns, getTaskId(name), columnName, None),
        columnSorting)

\* createTask that does not look the id up in the index
createTaskErrorUnindexed(cols, fs, name, columnName) ==
  IF name = BlankName THEN "Task name cannot be blank"
  ELSE IF taskFileExists(fs, getTaskId(name)) THEN "A task with id already exists"
  ELSE IF columnName \notin ColumnSet THEN "Column doesn't exist"
  ELSE ""

\* what Kanbn.createTask throws before it writes, "" when it goes on
createTaskError(cols, fs, name, columnName) ==
  IF name = BlankName THEN "Task name cannot be blank"
  ELSE IF taskFileExists(fs, getTaskId(name)) THEN "A task with id already exists"
  ELSE IF columnName \notin ColumnSet THEN "Column doesn't exist"
  ELSE IF contains(cols, getTaskId(name)) THEN "A task with id is already in the index"
  ELSE ""

\* Kanbn.createTask(taskData, columnName)
createTask(name, columnName) ==
  /\ MayAct
  /\ createTaskError(columns, files, name, columnName) = ""
  /\ Written(createTaskResult(name, columnName), Op("createTask", getTaskId(name), columnName))
  /\ UNCHANGED <<columnSorting, customFields, now>>

\* Kanbn.addUntrackedTaskToIndex(taskId, columnName)
addUntrackedTaskToIndex(taskId, columnName) ==
  /\ MayAct
  /\ taskFileExists(files, taskId)
  /\ columnName \in ColumnSet
  /\ ~contains(columns, taskId)
  /\ Written(saved(saveTask(files, taskId,
                            updateColumnLinkedCustomFields(customFields, loadTask(files, taskId),
                              columnName, now)),
                   addTask(columns, taskId, columnName, None),
                   columnSorting),
             Op("addUntrackedTaskToIndex", taskId, columnName))
  /\ UNCHANGED <<columnSorting, customFields, now>>

\* the position handed to Index.addTask by Kanbn.moveTask; position is None (null)
\* or Some(number)
movePosition(cols, taskId, position, relative) ==
  IF position # None /\ Val(position) # 0
  THEN Some(Max(Min((IF relative
                     THEN IndexOf(cols[findTaskColumn(cols, taskId)], taskId) + Val(position)
                     ELSE Val(position)),
                    Len(cols[findTaskColumn(cols, taskId)])), 0))
  ELSE position

\* what Kanbn.moveTask(taskId, columnName, position, relative) writes
moveTaskResult(cols, fs, taskId, columnName, position, relative) ==
  saved(saveTask(fs, taskId,
                 updateColumnLinkedCustomFields(customFields,
                   [loadTask(fs, taskId) EXCEPT !.updated = Some(now)], columnName, now)),
        addTask(removeTask(cols, taskId), taskId, columnName,
                movePosition(cols, taskId, position, relative)),
        columnSorting)

moveTaskAllowed(cols, fs, taskId, columnName) ==
  /\ taskFileExists(fs, taskId)
  /\ contains(cols, taskId)
  /\ columnName \in ColumnSet

\* Kanbn.moveTask
moveTask(taskId, columnName, position, relative) ==
  /\ MayAct
  /\ moveTaskAllowed(columns, files, taskId, columnName)
  /\ Written(moveTaskResult(columns, files, taskId, columnName, position, relative),
             [Op("moveTask", taskId, columnName) EXCEPT !.position = position,
                                                        !.relative = relative])
  /\ UNCHANGED <<columnSorting, customFields, now>>

\* what Kanbn.renameTask throws before it writes, "" when it goes on
renameTaskError(cols, fs, taskId, newTaskName) ==
  IF ~taskFileExists(fs, taskId) THEN "No task file found with id"
  ELSE IF ~contains(cols, taskId) THEN "Task is not in the index"
  ELSE IF taskFileExists(fs, getTaskId(newTaskName)) THEN "A task with id already exists"
  ELSE IF contains(cols, getTaskId(newTaskName))
  THEN "A task with id is already in the index"
  ELSE loadTaskError(fs, taskId)

renameTaskAllowed(cols, fs, taskId, newTaskName) ==
  renameTaskError(cols, fs, taskId, newTaskName) = ""

\* the task file saved under the old name, then renamed
renameFile(fs, taskId, newTaskId, taskData) ==
  [saveTask(fs, taskId, taskData) EXCEPT ![taskId] = None,
                                        ![newTaskId] = Some(encodeTask(taskData))]

\* what Kanbn.renameTask(taskId, newTaskName) writes
renameTaskResult(cols, fs, taskId, newTaskName) ==
  saved(renameFile(fs, taskId, getTaskId(newTaskName),
                   [loadTask(fs, taskId) EXCEPT !.name = newTaskName, !.updated = Some(now)]),
        renameTaskInIndex(cols, taskId, getTaskId(newTaskName)),
        columnSorting)

\* Kanbn.renameTask
renameTask(taskId, newTaskName) ==
  /\ MayAct
  /\ renameTaskAllowed(columns, files, taskId, newTaskName)
  /\ Written(renameTaskResult(columns, files, taskId, newTaskName),
             Op("renameTask", getTaskId(newTaskName), ""))
  /\ UNCHANGED <<columnSorting, customFields, now>>

\* Kanbn.updateTask after the task was renamed (or not): r is the store then, taskId
\* the id the task has then; columnName is None (null) or Some(column)
updateTaskResult(r, taskId, taskData, columnName) ==
  IF columnName # None
  THEN moveTaskResult(r.columns, saveTask(r.files, taskId, taskData), taskId, Val(columnName),
                      None, FALSE)
  ELSE saved(saveTask(r.files, taskId, taskData), r.columns, columnSorting)

updateTaskFrom(r, taskId, taskData, columnName, renamed) ==
  IF columnName # None /\ Val(columnName) \notin ColumnSet
  THEN \* throws "Column doesn't exist" when the rename has been written already
       renamed /\ Written(r, Op("updateTaskFailed", taskId, Val(columnName)))
  ELSE Written(updateTaskResult(r, taskId, taskData, columnName),
               Op("updateTask", taskId, IF columnName # None THEN Val(columnName) ELSE ""))

\* Kanbn.updateTask(taskId, taskData, columnName): taskData is the task as loaded, with
\* the name replaced
updateTask(taskId, name, columnName) ==
  /\ MayAct
  /\ taskFileExists(files, taskId)
  /\ contains(columns, taskId)
  /\ name # BlankName
  /\ IF loadTask(files, taskId).name # name
     THEN /\ renameTaskAllowed(columns, files, taskId, name)
          /\ updateTaskFrom(renameTaskResult(columns, files, taskId, name), getTaskId(name),
               [loadTask(files, taskId) EXCEPT !.name = name, !.updated = Some(now)],
               columnName, TRUE)
     ELSE updateTaskFrom([files |-> files, columns |-> columns], taskId,
               [loadTask(files, taskId) EXCEPT !.updated = Some(now)], columnName, FALSE)
  /\ UNCHANGED <<columnSorting, customFields, now>>

\* the tasks folder after Kanbn.deleteTask
unlinked(fs, taskId, removeFile) ==
  IF removeFile /\ taskFileExists(fs, taskId) THEN [fs EXCEPT ![taskId] = None] ELSE fs

\* Kanbn.deleteTask(taskId, removeFile)
deleteTask(taskId, removeFile) ==
  /\ MayAct
  /\ contains(columns, taskId)
  /\ Written(saved(unlinked(files, taskId, removeFile), removeTask(columns, taskId),
                   columnSorting),
             Op("deleteTask", taskId, ""))
  /\ UNCHANGED <<columnSorting, customFields, now>>

\* a sort that leaves the saved sorters of the column where they are
sortSettingsKept(sorting, columnName, sorters, save) ==
  IF save THEN [sorting EXCEPT ![columnName] = Some(sorters)] ELSE sorting

\* index.options.columnSorting after Kanbn.sort
sortSettings(sorting, columnName, sorters, save) ==
  [sorting EXCEPT ![columnName] = IF save THEN Some(sorters) ELSE None]

\* the column sorted by hand when the sorters are not saved
sortedByHand(cols, fs, columnName, sorters, save) ==
  IF save THEN cols
  ELSE [cols EXCEPT ![columnName] = sortColumn(loadAllTrackedTasks(cols, fs, columnName), sorters)]

\* Kanbn.sort(columnName, sorters, save)
sort(columnName, sorters, save) ==
  /\ MayAct
  /\ columnName \in ColumnSet
  /\ columnSorting' = sortSettings(columnSorting, columnName, sorters, save)
  /\ Written(saved(files, sortedByHand(columns, files, columnName, sorters, save),
                   sortSettings(columnSorting, columnName, sorters, save)),
             Op(IF save THEN "sortSaved" ELSE "sort", <<>>, columnName))
  /\ UNCHANGED <<customFields, now>>

\* time passes between two operations
Tick ==
  /\ now < MaxTime
  /\ now' = now + 1
  /\ UNCHANGED <<columns, columnSorting, customFields, files, ops, lastOp, call>>

(***************************************************************************)
(* The store under every operation of the Kanbn class.                     *)
(***************************************************************************)
\* positions handed to moveTask: null, or an absolute position or relative offset
MovePositions == {None, Some(0), Some(1)}
\* columns handed to updateTask: null, a column of the index, or a column it lacks
UpdateColumns == {None, Some("c2"), Some("nocolumn")}

\* the index options of the test fixtures: the date field "test" is declared, and
\* the option testColumns lists its columns
FixtureCustomFields == << CustomField("test", "date", "once", <<>>) >>

\* one step of the store, the inputs drawn from the given sets
NextOver(names, positions, updateColumns, sorterLists) ==
  \/ \E name \in names, c \in ColumnSet : createTask(name, c)
  \/ \E id \in TaskIds, c \in ColumnSet : addUntrackedTaskToIndex(id, c)
  \/ \E id \in TaskIds, c \in ColumnSet, p \in positions, rel \in BOOLEAN :
       moveTask(id, c, p, rel)
  \/ \E id \in TaskIds, name \in names : renameTask(id, name)
  \/ \E id \in TaskIds, name \in names, c \in updateColumns : updateTask(id, name, c)
  \/ \E id \in TaskIds, removeFile \in BOOLEAN : deleteTask(id, removeFile)
  \/ \E c \in ColumnSet, sorters \in sorterLists, save \in BOOLEAN : sort(c, sorters, save)
  \/ Tick

\* no function of the query engine is called
NoCall == [fn |-> "none", args |-> <<>>, result |-> None]

\* the store after kanbn.initialise(): the columns exist and hold no task
EmptyStore ==
  /\ columns = [c \in ColumnSet |-> <<>>]
  /\ columnSorting = [c \in ColumnSet |-> None]
  /\ files = [id \in TaskIds |-> None]
  /\ now = 0
  /\ lastOp = Op("initialise", <<>>, "")
  /\ call = NoCall

Init ==
  /\ EmptyStore
  /\ customFields = FixtureCustomFields
  /\ ops = MaxOps

Next == NextOver(TaskNames, MovePositions, UpdateColumns, SorterLists)

vars == <<storeVars, call>>

Spec == Init /\ [][Next]_vars

(***************************************************************************)
(* Tasks created and moved under each declaration of the custom fields.    *)
(***************************************************************************)
DatedNames == {<<"a">>, <<"b">>}

InitDates ==
  /\ EmptyStore
  /\ customFields \in CustomFieldConfigs
  /\ ops = MaxOps

NextDates ==
  \/ \E name \in DatedNames, c \in ColumnSet : createTask(name, c)
  \/ \E name \in DatedNames, c \in ColumnSet : moveTask(getTaskId(name), c, None, FALSE)
  \/ Tick

SpecDates == InitDates /\ [][NextDates]_vars

(***************************************************************************)
(* Tasks moved on boards of three tasks, to every position and offset.     *)
(***************************************************************************)
\* number of moves made on a board
MaxMoves == 1
\* largest position or offset handed to moveTask; the smallest is 1 - MaxPosition
MaxPosition == 3

BoardPositions == {None} \cup {Some(p) : p \in (1 - MaxPosition)..MaxPosition}

\* the boards that creating the three tasks, one after the other, can make
Boards ==
  { cols \in [ColumnSet -> UNION {[1..n -> TaskIds] : n \in 0..Cardinality(TaskIds)}] :
      \A id \in TaskIds :
        Cardinality({<<c, i>> \in ColumnSet \X (1..Cardinality(TaskIds)) :
                       i <= Len(cols[c]) /\ cols[c][i] = id}) = 1 }

\* the name a task id was made from
NameOf(taskId) == CHOOSE name \in TaskNames : getTaskId(name) = taskId /\ name[Len(name)] # " "

\* a task that can be the one created last: the last of its column
LastCreated(cols) ==
  CHOOSE id \in TaskIds : IndexOf(cols[findTaskColumn(cols, id)], id)
                            = Len(cols[findTaskColumn(cols, id)]) - 1

InitMove ==
  /\ columns \in Boards
  /\ columnSorting = [c \in ColumnSet |-> None]
  /\ customFields = FixtureCustomFields
  /\ files = [id \in TaskIds |->
                Some(encodeTask([NewTaskData(NameOf(id)) EXCEPT !.created = Some(0)]))]
  /\ now = 0
  /\ ops = MaxMoves
  /\ lastOp = Op("createTask", LastCreated(columns),
                 findTaskColumn(columns, LastCreated(columns)))
  /\ call = NoCall

NextMove ==
  \E id \in TaskIds, c \in ColumnSet, p \in BoardPositions, rel \in BOOLEAN :
    moveTask(id, c, p, rel)

SpecMove == InitMove /\ [][NextMove]_vars

(***************************************************************************)
(* Calls of the query engine's functions on a store that does not change.  *)
(***************************************************************************)
\* a call that has not returned yet
Call(fn, args) == [fn |-> fn, args |-> args, result |-> None]

\* the store while a function is called
IdleStore ==
  /\ columns = [c \in ColumnSet |-> <<>>]
  /\ columnSorting = [c \in ColumnSet |-> None]
  /\ customFields = FixtureCustomFields
  /\ files = [id \in TaskIds |-> None]
  /\ now = 0
  /\ ops = 0
  /\ lastOp = Op("initialise", <<>>, "")

\* the function returns
Returns(value) ==
  /\ ~Has(call.result)
  /\ call' = [call EXCEPT !.result = Some(value)]
  /\ UNCHANGED storeVars

(***************************************************************************)
(* Index.taskWorkload, taskCompleted, taskProgress.  A task of the query   *)
(* engine is [id, tags, progress, completed, subTasks, relations,          *)
(* comments, customFields]; a metadata property that the task lacks is     *)
(* None.  Progress is counted in hundredths.                               *)
(***************************************************************************)
\* the progress 1 of a completed task
Whole == 100

DEFAULT_TASK_WORKLOAD == 2
DEFAULT_TASK_WORKLOAD_TAGS ==
  [Nothing |-> 0, Tiny |-> 1, Small |-> 2, Medium |-> 3, Large |-> 5, Huge |-> 8]

RECURSIVE SumWeights(_, _)
SumWeights(table, tags) ==
  IF tags = {} THEN 0
  ELSE LET tag == CHOOSE t \in tags : TRUE
       IN table[tag] + SumWeights(table, tags \ {tag})

\* taskWorkload without the fallback to the default workload
taskWorkloadSummed(task) ==
  IF Has(task.tags)
  THEN SumWeights(DEFAULT_TASK_WORKLOAD_TAGS,
                  {workloadTag \in DOMAIN DEFAULT_TASK_WORKLOAD_TAGS :
                     IndexOf(Val(task.tags), workloadTag) # 0 - 1})
  ELSE 0

\* Index.taskWorkload
taskWorkload(task) ==
  LET carried == IF Has(task.tags)
                 THEN {workloadTag \in DOMAIN DEFAULT_TASK_WORKLOAD_TAGS :
                         IndexOf(Val(task.tags), workloadTag) # 0 - 1}
                 ELSE {}
  IN IF carried = {} THEN DEFAULT_TASK_WORKLOAD
     ELSE SumWeights(DEFAULT_TASK_WORKLOAD_TAGS, carried)

\* Index.taskCompleted
taskCompleted(cols, task) ==
  \/ Has(task.completed)
  \/ IndexOf(completedColumns, findTaskColumn(cols, task.id)) # 0 - 1

\* Index.taskProgress
taskProgress(cols, task) ==
  IF taskCompleted(cols, task) THEN NumV(Whole)
  ELSE IF Has(task.progress) THEN NumV(Val(task.progress)) ELSE Undefined

(***************************************************************************)
(* Filter.  A predicate of a filter is Null, Undefined, a value or an      *)
(* array of values.  A regular expression is a literal string, several     *)
(* are alternatives.  A date is a number of half days.                     *)
(***************************************************************************)
\* the length of a day
DayLength == 2

Null == [kind |-> "null", v |-> 0, obj |-> <<>>]
BoolV(b) == [kind |-> "boolean", v |-> b, obj |-> <<>>]
ArrayV(values) == [kind |-> "array", v |-> values, obj |-> <<>>]

\* the value converts to true
Truthy(a) ==
  CASE a.kind \in {"null", "undefined"} -> FALSE
    [] a.kind = "number" -> a.v # 0
    [] a.kind = "string" -> a.v # <<>>
    [] a.kind = "boolean" -> a.v
    [] OTHER -> TRUE

\* utility.arrayArg
arrayArg(arg) == IF arg.kind = "array" THEN arg.v ELSE <<arg>>

\* the numbers of the array, if each element is a number (no NaN)
AllNumbers(arr) == \A i \in 1..Len(arr) : arr[i].kind \in {"number", "date"}

\* Filter.numberFilter
numberFilter(filter, input) ==
  LET filterArray == arrayArg(filter)
  IN /\ filterArray # <<>>
     /\ AllNumbers(filterArray)
     /\ input.kind = "number"
     /\ \E i \in 1..Len(filterArray) : input.v >= filterArray[i].v
     /\ \E i \in 1..Len(filterArray) : input.v <= filterArray[i].v

\* the text has the literal somewhere, whatever the case
TestLiteral(literal, text) ==
  \E k \in 0..(Len(text) - Len(literal)) :
    \A i \in 1..Len(literal) : ToLower(text[k + i]) = ToLower(literal[i])

\* Filter.stringFilter; new RegExp(undefined) matches every input
stringFilter(filter, input) ==
  \/ filter.kind = "undefined"
  \/ \E i \in 1..Len(arrayArg(filter)) : TestLiteral(arrayArg(filter)[i].v, input.v)

\* the day of a date
DayOf(t) == t \div DayLength

\* utility.compareDates
compareDates(a, b) == a.kind = "date" /\ b.kind = "date" /\ DayOf(a.v) = DayOf(b.v)

\* Filter.dateFilter
dateFilter(dates, input) ==
  LET dateArray == arrayArg(dates)
  IN IF Len(dateArray) = 1 THEN compareDates(input, dateArray[1])
     ELSE /\ dateArray # <<>>
          /\ AllNumbers(dateArray)
          /\ \E i \in 1..Len(dateArray) : input.v >= dateArray[i].v
          /\ \E i \in 1..Len(dateArray) : input.v <= dateArray[i].v

(***************************************************************************)
(* Index.filterTasks.  A filter is [keys, numbers, customFields]: the keys *)
(* of the filter object, the predicates of its numeric fields (Null when   *)
(* none) and the predicates under filters.customFields (Undefined when     *)
(* none).  The string and date predicates of the built-in fields are null  *)
(* in every call made here, so their tests are skipped.                    *)
(***************************************************************************)
NumericFields ==
  {"workload", "progress", "countSubTasks", "countTags", "countRelations", "countComments"}

\* if (filters.x && !numberFilter(filters.x, input)) result = false
NumberKept(filter, input) == ~(Truthy(filter) /\ ~numberFilter(filter, input))

\* the test of one declared custom field whose name is a key of the filter
CustomKept(customField, filters, task) ==
  IF customField.name \notin DOMAIN task.customFields
     \/ ~Has(task.customFields[customField.name]) THEN FALSE
  ELSE CASE customField.type = "boolean" ->
              StrictEq(Val(task.customFields[customField.name]),
                       filters.customFields[customField.name])
         [] customField.type = "number" ->
              numberFilter(filters.customFields[customField.name],
                           Val(task.customFields[customField.name]))
         [] customField.type = "string" ->
              stringFilter(filters.customFields[customField.name],
                           Val(task.customFields[customField.name]))
         [] customField.type = "date" ->
              dateFilter(filters.customFields[customField.name],
                         Val(task.customFields[customField.name]))
         [] OTHER -> TRUE

\* the callback of tasks.filter
KeepsTask(cols, cfs, filters, task) ==
  \/ filters.keys = {}
  \/ /\ NumberKept(filters.numbers["workload"], NumV(taskWorkload(task)))
     /\ NumberKept(filters.numbers["progress"], taskProgress(cols, task))
     /\ NumberKept(filters.numbers["countSubTasks"], NumV(Len(task.subTasks)))
     /\ NumberKept(filters.numbers["countRelations"], NumV(Len(task.relations)))
     /\ NumberKept(filters.numbers["countComments"], NumV(Len(task.comments)))
     /\ \A i \in 1..Len(cfs) :
          cfs[i].name \in filters.keys => CustomKept(cfs[i], filters, task)

\* the callback throws a TypeError: the count of tags is read from task.tags, which a
\* task record does not have (its tags are task.metadata.tags)
ThrowsOnTask(filters) == filters.keys # {} /\ Truthy(filters.numbers["countTags"])

\* Index.filterTasks: [threw, tasks]
filterTasks(cols, cfs, tasks, filters) ==
  LET Keeps(task) == KeepsTask(cols, cfs, filters, task)
  IN IF tasks # <<>> /\ ThrowsOnTask(filters)
     THEN [threw |-> TRUE, tasks |-> <<>>]
     ELSE [threw |-> FALSE, tasks |-> SelectSeq(tasks, Keeps)]

(***************************************************************************)
(* Kanbn.hydrateTask.  A loaded task is [id, tags, progress, assigned,     *)
(* created, started, completed, due]: a metadata property the task lacks   *)
(* is None, one it has is Some(value), the value a Date or null.  The      *)
(* result is [threw, task]; the due message is left out.                   *)
(***************************************************************************)
NaN == [kind |-> "NaN", v |-> 0, obj |-> <<>>]

\* a call that throws a TypeError
Threw == [threw |-> TRUE, task |-> <<>>]

\* task.metadata[property]: undefined when the task lacks the property
Metadata(task, property) ==
  IF Has(task[property]) THEN Val(task[property]) ELSE Undefined

\* date ?? new Date()
OrNow(date, t) == IF date.kind \in {"null", "undefined"} THEN DateV(t, "now") ELSE date

\* Math.ceil(task.workload * (1 - task.progress))
remainingWorkload(workload, progress) ==
  IF progress.kind = "number"
  THEN NumV((workload * (Whole - progress.v) + Whole - 1) \div Whole)
  ELSE NaN

\* the due data of a task whose metadata has a due property
dueData(completed, completedDate, due, t) ==
  LET delta == IF completedDate.kind # "null"
               THEN completedDate.v - OrNow(due, t).v
               ELSE t - OrNow(due, t).v
  IN [dueDelta |-> delta, completed |-> completed, completedDate |-> completedDate,
      dueDate |-> OrNow(due, t), overdue |-> ~completed /\ delta > 0]

\* Kanbn.hydrateTask; completedDate.valueOf() throws when completedDate is undefined
hydrateTask(cols, task, t) ==
  IF Has(task.due) /\ Metadata(task, "completed").kind = "undefined"
  THEN Threw
  ELSE [threw |-> FALSE,
        task |-> [id |-> task.id,
                  metadata |-> task,
                  column |-> findTaskColumn(cols, task.id),
                  workload |-> taskWorkload(task),
                  progress |-> taskProgress(cols, task),
                  remainingWorkload |->
                    remainingWorkload(taskWorkload(task), taskProgress(cols, task)),
                  dueData |->
                    IF Has(task.due)
                    THEN Some(dueData(taskCompleted(cols, task), Metadata(task, "completed"),
                                      Val(task.due), t))
                    ELSE None]]

(***************************************************************************)
(* Kanbn.status.  The tracked tasks are given as loadAllTrackedTasks       *)
(* returns them, in the order of the index.  A sprint is [name, start].    *)
(* The calls made here ask for no untracked tasks, and the index declares  *)
(* no custom fields.  A report is the object that status returns.          *)
(***************************************************************************)
\* a call that throws an Error with a message
Failed(message) == [threw |-> TRUE, error |-> message, report |-> <<>>]

\* a + b of two numbers, one of which may be NaN
Plus(a, b) == IF a.kind = "number" /\ b.kind = "number" THEN NumV(a.v + b.v) ELSE NaN

\* tasks.reduce((a, task) => a + task.workload, 0)
RECURSIVE sumWorkload(_)
sumWorkload(tasks) ==
  IF tasks = <<>> THEN 0 ELSE tasks[1].workload + sumWorkload(Tail(tasks))

\* the sum of task.remainingWorkload over the tasks
RECURSIVE sumRemainingWorkload(_)
sumRemainingWorkload(tasks) ==
  IF tasks = <<>> THEN NumV(0)
  ELSE Plus(tasks[1].remainingWorkload, sumRemainingWorkload(Tail(tasks)))

\* Task.taskWorkloadInPeriod; later is what new Date() gives inside the callback
taskWorkloadInPeriod(tasks, metadataProperty, start, end, later) ==
  LET InPeriod(task) ==
        /\ OrNow(Metadata(task.metadata, metadataProperty), later).v >= start
        /\ OrNow(Metadata(task.metadata, metadataProperty), later).v <= end
      Entry(task) == [id |-> task.id, column |-> task.column, workload |-> task.workload]
  IN [tasks |-> [i \in 1..Len(SelectSeq(tasks, InPeriod)) |->
                   Entry(SelectSeq(tasks, InPeriod)[i])],
      workload |-> sumWorkload(SelectSeq(tasks, InPeriod))]

\* the statistics of a period for the four built-in dates
periodStatistics(tasks, start, end, later) ==
  [created |-> taskWorkloadInPeriod(tasks, "created", start, end, later),
   started |-> taskWorkloadInPeriod(tasks, "started", start, end, later),
   completed |-> taskWorkloadInPeriod(tasks, "completed", start, end, later),
   due |-> taskWorkloadInPeriod(tasks, "due", start, end, later)]

\* the number of the sprint that status selects, 0 when it throws
sprintNumber(sprints, sprint) ==
  CASE sprint.kind = "number" ->
         IF sprint.v < 1 \/ sprint.v > Len(sprints) THEN 0 ELSE sprint.v
    [] sprint.kind = "string" ->
         IF \E i \in 1..Len(sprints) : sprints[i].name = sprint.v
         THEN CHOOSE i \in 1..Len(sprints) :
                /\ sprints[i].name = sprint.v
                /\ \A j \in 1..(i - 1) : sprints[j].name # sprint.v
         ELSE 0
    [] OTHER -> Len(sprints)

\* sprintEndDate
sprintEndDate(sprints, number, t) ==
  IF number = Len(sprints) THEN t ELSE sprints[number + 1].start

\* resultSprint; its end is only set under a condition that never holds
resultSprint(tasks, sprints, number, t, later) ==
  [number |-> number,
   name |-> sprints[number].name,
   start |-> sprints[number].start,
   end |-> Null,
   current |-> IF number # Len(sprints) THEN NumV(Len(sprints)) ELSE Null,
   durationDelta |-> sprintEndDate(sprints, number, t) - sprints[number].start,
   statistics |-> periodStatistics(tasks, sprints[number].start,
                                   sprintEndDate(sprints, number, t), later)]

\* the tasks of the list that are in the column
inColumn(tasks, columnName) ==
  LET Is(task) == task.column = columnName IN SelectSeq(tasks, Is)

\* the tasks of the list that carry the assignee
assignedTo(tasks, assignee) ==
  LET Is(task) == task.metadata.assigned = Some(assignee) IN SelectSeq(tasks, Is)

\* resultColumnWorkloads
columnWorkloads(tasks) ==
  [c \in ColumnSet |-> [workload |-> sumWorkload(inColumn(tasks, c)),
                        remainingWorkload |-> sumRemainingWorkload(inColumn(tasks, c))]]

\* taskWorkloads
taskWorkloads(cols, tasks) ==
  [id \in {tasks[i].id : i \in 1..Len(tasks)} |->
     LET task == tasks[CHOOSE i \in 1..Len(tasks) : tasks[i].id = id]
     IN [workload |-> task.workload, progress |-> task.progress,
         remainingWorkload |-> task.remainingWorkload,
         completed |-> taskCompleted(cols, task.metadata)]]

\* assignedTasks
assignedTasks(tasks) ==
  [assignee \in {Val(tasks[i].metadata.assigned) :
                   i \in {j \in 1..Len(tasks) : Has(tasks[j].metadata.assigned)}} |->
     [total |-> Len(assignedTo(tasks, assignee)),
      workload |-> sumWorkload(assignedTo(tasks, assignee)),
      remainingWorkload |-> sumRemainingWorkload(assignedTo(tasks, assignee))]]

\* dueTasks
dueTasks(tasks) ==
  LET IsDue(task) == Has(task.dueData)
      Entry(task) == [task |-> task.id, workload |-> task.workload,
                      progress |-> task.progress,
                      remainingWorkload |-> task.remainingWorkload,
                      dueData |-> Val(task.dueData)]
  IN [i \in 1..Len(SelectSeq(tasks, IsDue)) |-> Entry(SelectSeq(tasks, IsDue)[i])]

\* the number of task ids in the listed columns
RECURSIVE countIn(_, _)
countIn(cols, columnList) ==
  IF columnList = <<>> THEN 0
  ELSE Len(cols[Head(columnList)]) + countIn(cols, Tail(columnList))

\* resultPeriod for the dates asked for: one date is its whole day, several dates run
\* from the earliest to the latest
resultPeriod(tasks, dates, later) ==
  LET periodStart == IF Len(dates) = 1 THEN DayOf(dates[1]) * DayLength
                     ELSE CHOOSE d \in Range(dates) : \A e \in Range(dates) : d <= e
      periodEnd == IF Len(dates) = 1 THEN DayOf(dates[1]) * DayLength + DayLength - 1
                   ELSE CHOOSE d \in Range(dates) : \A e \in Range(dates) : d >= e
  IN [start |-> periodStart, end |-> periodEnd,
      statistics |-> periodStatistics(tasks, periodStart, periodEnd, later)]

\* the object returned for quiet = false, from the hydrated tasks
fullReport(cols, tasks, sprints, number, due, dates, t, later) ==
  [untrackedTasks |-> Null,
   sprint |-> IF sprints # <<>>
              THEN Some(resultSprint(tasks, sprints, number, t, later)) ELSE None,
   period |-> IF dates # <<>> THEN Some(resultPeriod(tasks, dates, later)) ELSE None,
   assigned |-> Some(assignedTasks(tasks)),
   dueTasks |-> IF due THEN Some(dueTasks(tasks)) ELSE None,
   totalWorkload |-> NumV(sumWorkload(tasks)),
   totalRemainingWorkload |-> sumRemainingWorkload(tasks),
   columnWorkloads |-> Some(columnWorkloads(tasks)),
   taskWorkloads |-> Some(taskWorkloads(cols, tasks)),
   startedTasks |-> countIn(cols, startedColumns),
   completedTasks |-> countIn(cols, completedColumns)]

\* the object returned for quiet = true
quietReport(cols) ==
  [untrackedTasks |-> Null, sprint |-> None, period |-> None, assigned |-> None,
   dueTasks |-> None, totalWorkload |-> NumV(0), totalRemainingWorkload |-> NumV(0),
   columnWorkloads |-> None, taskWorkloads |-> None,
   startedTasks |-> countIn(cols, startedColumns),
   completedTasks |-> countIn(cols, completedColumns)]

\* Kanbn.status(quiet, false, due, sprint, dates) on the loaded tasks
status(cols, loaded, sprints, quiet, due, sprint, dates, t, later) ==
  IF quiet THEN [threw |-> FALSE, error |-> "", report |-> quietReport(cols)]
  ELSE IF \E i \in 1..Len(loaded) : hydrateTask(cols, loaded[i], t).threw
  THEN Failed("TypeError")
  ELSE IF sprints # <<>> /\ sprintNumber(sprints, sprint) = 0
  THEN Failed("Sprint does not exist")
  ELSE [threw |-> FALSE, error |-> "",
        report |-> fullReport(cols, [i \in 1..Len(loaded) |->
                                       hydrateTask(cols, loaded[i], t).task],
                              sprints, sprintNumber(sprints, sprint), due, dates, t, later)]

(***************************************************************************)
(* Kanbn.burndown and the functions of Sprint.ts.  A prepared task is a    *)
(* loaded task with created, started and completed as burndown sets them:  *)
(* a Date or null.  The time is counted in half days, so that normalising  *)
(* to hours, minutes or seconds changes no date.                           *)
(***************************************************************************)
\* task.column of a loaded task: a task file does not tell the column
loadedColumn == ""

\* the task as burndown prepares it
preparedTask(cols, task) ==
  LET created == IF Has(task.created) THEN Val(task.created) ELSE DateV(0, "epoch")
      Linked(columnList) == IF IndexOf(columnList, loadedColumn) # 0 - 1 THEN created ELSE Null
  IN [id |-> task.id,
      metadata |-> task,
      created |-> created,
      started |-> IF Has(task.started) THEN Val(task.started) ELSE Linked(startedColumns),
      completed |-> IF Has(task.completed) THEN Val(task.completed)
                    ELSE Linked(completedColumns),
      progress |-> taskProgress(cols, task),
      assigned |-> IF Has(task.assigned) THEN StrV(Val(task.assigned)) ELSE Null,
      workload |-> taskWorkload(task),
      column |-> findTaskColumn(cols, task.id)]

\* the prepared tasks that pass the filters on the assignee and on the columns
preparedTasks(cols, loaded, assigned, columnList) ==
  LET Passes(task) ==
        /\ assigned.kind = "null" \/ StrictEq(task.assigned, assigned)
        /\ columnList = None \/ IndexOf(Val(columnList), task.column) # 0 - 1
  IN SelectSeq([i \in 1..Len(loaded) |-> preparedTask(cols, loaded[i])], Passes)

\* Sprint.normaliseDate on a timestamp
normaliseDate(t, resolution) == IF resolution = "days" THEN DayOf(t) * DayLength ELSE t

\* a Date or null, normalised when it converts to true (or is not null)
normalised(date, resolution) ==
  IF date.kind = "date" THEN DateV(normaliseDate(date.v, resolution), date.obj) ELSE date

\* "auto" that never chooses days
autoResolutionFine(from, to) ==
  IF to - from >= DayLength THEN "hours"
  ELSE IF to - from >= 1 THEN "minutes"
  ELSE "seconds"

\* the resolution that normalise = "auto" chooses for the first series; an hour is
\* shorter than the unit of time, so a window that is not empty lasts an hour or more
autoResolution(from, to) ==
  IF to - from >= DayLength * 7 THEN "days"
  ELSE IF to - from >= DayLength THEN "hours"
  ELSE IF to - from >= 1 THEN "minutes"
  ELSE "seconds"

\* getActiveTasksAtDate that keeps a task on the date it is completed
getActiveTasksAtDateKept(tasks, date) ==
  LET Active(task) ==
        /\ task.started.kind # "null" /\ task.started.v <= date
        /\ task.completed.kind = "null" \/ task.completed.v >= date
  IN SelectSeq(tasks, Active)

\* Sprint.getActiveTasksAtDate
getActiveTasksAtDate(tasks, date) ==
  LET Active(task) ==
        /\ task.started.kind # "null" /\ task.started.v <= date
        /\ task.completed.kind = "null" \/ task.completed.v > date
  IN SelectSeq(tasks, Active)

\* Sprint.getTaskEventsAtDate: a date that is null counts as the time 0
getTaskEventsAtDate(tasks, date) ==
  LET At(eventType) ==
        LET Is(task) ==
              (IF task[eventType].kind = "date" THEN task[eventType].v ELSE 0) = date
        IN [i \in 1..Len(SelectSeq(tasks, Is)) |->
              [eventType |-> eventType, task |-> SelectSeq(tasks, Is)[i].id]]
  IN At("created") \o At("started") \o At("completed")

\* a data point of a series
dataPoint(tasks, x) ==
  [x |-> x,
   y |-> sumWorkload(getActiveTasksAtDate(tasks, x)),
   count |-> Len(getActiveTasksAtDate(tasks, x)),
   tasks |-> getTaskEventsAtDate(tasks, x)]

\* the dates of the tasks, three for each task, without the null ones
RECURSIVE taskDates(_)
taskDates(tasks) ==
  IF tasks = <<>> THEN <<>>
  ELSE LET NotNull(d) == d.kind # "null"
           dates == SelectSeq(<<tasks[1].created, tasks[1].started, tasks[1].completed>>,
                              NotNull)
       IN [i \in 1..Len(dates) |-> dates[i].v] \o taskDates(Tail(tasks))

\* the points sorted by x, points with the same x in their order
RECURSIVE sortPoints(_)
sortPoints(points) ==
  IF points = <<>> THEN <<>>
  ELSE LET x == CHOOSE v \in {points[i].x : i \in 1..Len(points)} :
                  \A i \in 1..Len(points) : v <= points[i].x
           First(point) == point.x = x
           Rest(point) == point.x # x
       IN SelectSeq(points, First) \o sortPoints(SelectSeq(points, Rest))

\* s.dataPoints
dataPoints(tasks, from, to) ==
  LET Within(date) == date.kind = "date" /\ date.v >= from /\ date.v <= to
      Touches(task) == Within(task.created) \/ Within(task.started) \/ Within(task.completed)
      xs == <<from>> \o taskDates(SelectSeq(tasks, Touches)) \o <<to>>
  IN sortPoints([i \in 1..Len(xs) |-> dataPoint(tasks, xs[i])])

\* the earliest date in the metadata of the tasks; a completed date that is null
\* counts as the latest date there is, later than the created date of a task
earliestDate(tasks) ==
  LET dates == UNION { {task.metadata[p] : p \in {"created", "started", "completed"}} :
                       task \in Range(tasks) }
      times == {Val(d).v : d \in {e \in dates : Has(e) /\ Val(e).kind = "date"}}
  IN CHOOSE t \in times : \A u \in times : t <= u

\* the series of the sprints asked for
sprintSeries(indexSprints, sprints, t) ==
  [i \in 1..Len(sprints) |->
     [sprint |-> Some(sprintNumber(indexSprints, sprints[i])),
      from |-> indexSprints[sprintNumber(indexSprints, sprints[i])].start,
      to |-> sprintEndDate(indexSprints, sprintNumber(indexSprints, sprints[i]), t)]]

\* the series of the dates asked for
dateSeries(dates, t) ==
  << [sprint |-> None,
      from |-> CHOOSE d \in Range(dates) : \A e \in Range(dates) : d <= e,
      to |-> IF Len(dates) = 1 THEN t
             ELSE CHOOSE d \in Range(dates) : \A e \in Range(dates) : d >= e] >>

\* the series to plot, before their data points are made
plottedSeries(tasks, indexSprints, sprints, dates, t) ==
  IF ~Has(sprints) /\ ~Has(dates)
  THEN IF indexSprints # <<>>
       THEN << [sprint |-> Some(Len(indexSprints)),
                from |-> indexSprints[Len(indexSprints)].start, to |-> t] >>
       ELSE << [sprint |-> None, from |-> earliestDate(tasks), to |-> t] >>
  ELSE (IF Has(sprints) THEN sprintSeries(indexSprints, Val(sprints), t) ELSE <<>>)
         \o (IF Has(dates) THEN dateSeries(Val(dates), t) ELSE <<>>)

\* the series with their data points, under the resolution
normalisedSeries(tasks, series, resolution) ==
  [i \in 1..Len(series) |->
     [sprint |-> series[i].sprint,
      from |-> normaliseDate(series[i].from, resolution),
      to |-> normaliseDate(series[i].to, resolution),
      dataPoints |->
        dataPoints([k \in 1..Len(tasks) |->
                      [tasks[k] EXCEPT !.created = normalised(@, resolution),
                                       !.started = normalised(@, resolution),
                                       !.completed = normalised(@, resolution)]],
                   normaliseDate(series[i].from, resolution),
                   normaliseDate(series[i].to, resolution))]]

\* Kanbn.burndown(sprints, dates, assigned, columns, normalise) on the loaded tasks
burndown(tasks, indexSprints, sprints, dates, normalise, t) ==
  IF Has(sprints) /\ indexSprints = <<>>
  THEN Failed("No sprints defined")
  ELSE IF Has(sprints)
          /\ \E i \in 1..Len(Val(sprints)) : sprintNumber(indexSprints, Val(sprints)[i]) = 0
  THEN Failed("Sprint does not exist")
  ELSE [threw |-> FALSE, error |-> "",
        report |->
          normalisedSeries(
            tasks, plottedSeries(tasks, indexSprints, sprints, dates, t),
            IF normalise = "auto"
            THEN autoResolution(plottedSeries(tasks, indexSprints, sprints, dates, t)[1].from,
                                plottedSeries(tasks, indexSprints, sprints, dates, t)[1].to)
            ELSE normalise)]

(***************************************************************************)
(* Calls of filterTasks and taskProgress on boards of two tasks.           *)
(***************************************************************************)
\* the custom fields declared in the options, one of each type
QueryCustomFields ==
  << CustomField("num", "number", "", <<>>), CustomField("str", "string", "", <<>>),
     CustomField("day", "date", "", <<>>), CustomField("flag", "boolean", "", <<>>) >>

CustomNames == {"num", "str", "day", "flag"}

\* what a task can store
TaskProfiles ==
  { [tags |-> None, progress |-> None, completed |-> None, subTasks |-> <<>>,
     relations |-> <<>>, comments |-> <<>>,
     customFields |-> [n \in CustomNames |-> None]],
    [tags |-> Some(<<"Nothing">>), progress |-> Some(0), completed |-> None,
     subTasks |-> <<"x">>, relations |-> <<>>, comments |-> <<>>,
     customFields |-> [num |-> Some(NumV(0)), str |-> Some(StrV(<<"a">>)),
                       day |-> Some(DateV(0, "t")), flag |-> Some(BoolV(FALSE))]],
    [tags |-> Some(<<"Tiny", "other">>), progress |-> Some(50), completed |-> None,
     subTasks |-> <<>>, relations |-> <<"x">>, comments |-> <<"x">>,
     customFields |-> [num |-> Some(NumV(1)), str |-> Some(StrV(<<"B">>)),
                       day |-> Some(DateV(1, "t")), flag |-> Some(BoolV(TRUE))]],
    [tags |-> Some(<<"Large">>), progress |-> None, completed |-> Some(0),
     subTasks |-> <<"x", "x">>, relations |-> <<>>, comments |-> <<>>,
     customFields |-> [num |-> Some(NumV(5)), str |-> Some(StrV(<<"a", "b">>)),
                       day |-> Some(DateV(2, "t")), flag |-> Some(BoolV(TRUE))]] }

QueryTask(taskId, profile) ==
  [id |-> taskId, tags |-> profile.tags, progress |-> profile.progress,
   completed |-> profile.completed, subTasks |-> profile.subTasks,
   relations |-> profile.relations, comments |-> profile.comments,
   customFields |-> profile.customFields]

QueryTaskLists ==
  { << QueryTask(<<"a">>, p) >> : p \in TaskProfiles }
  \cup { << QueryTask(<<"a">>, p), QueryTask(<<"b">>, q) >> : p, q \in TaskProfiles }

\* the boards: task a is in the first or in the completed column, task b in the second
QueryBoards ==
  { [c1 |-> << <<"a">> >>, c2 |-> << <<"b">> >>, c3 |-> <<>>],
    [c1 |-> <<>>, c2 |-> << <<"b">> >>, c3 |-> << <<"a">> >>] }

\* the predicates given for a numeric field
NumberPredicates ==
  << NumV(0), NumV(1), NumV(2), ArrayV(<<NumV(1)>>), ArrayV(<<NumV(0), NumV(2)>>),
     ArrayV(<<NumV(5), NumV(0)>>), ArrayV(<<NumV(Whole), NumV(50)>>) >>

\* the predicates given for a custom field
CustomPredicates(name) ==
  CASE name = "num" -> <<NumV(0), NumV(1), ArrayV(<<NumV(1), NumV(0)>>)>>
    [] name = "str" -> <<StrV(<<"a">>), ArrayV(<<StrV(<<"b">>), StrV(<<"a", "b">>)>>)>>
    [] name = "day" -> <<DateV(0, "f"), ArrayV(<<DateV(2, "f"), DateV(1, "g")>>)>>
    [] name = "flag" -> <<BoolV(TRUE), BoolV(FALSE)>>

\* EMPTY_FILTER
EmptyFilter ==
  [keys |-> NumericFields \cup {"customFields"},
   numbers |-> [f \in NumericFields |-> Null],
   customFields |-> [n \in CustomNames |-> Undefined]]

\* a filter object that has no entries
NoFilter == [EmptyFilter EXCEPT !.keys = {}]

\* options.customFields that also declare a field with the name of a filter entry
ClashingCustomFields == QueryCustomFields \o << CustomField("progress", "number", "", <<>>) >>

\* a filter with one numeric predicate
NumberFilter(field, predicate) == [EmptyFilter EXCEPT !.numbers[field] = predicate]

\* where the predicate of a custom field is put: under filters.customFields, the name
\* as a key of the filter itself, or both
Placements == {"nested", "key", "both"}

\* a filter for one custom field
CustomFilter(name, predicate, placement) ==
  [EmptyFilter EXCEPT
     !.keys = IF placement = "nested" THEN @ ELSE @ \cup {name},
     !.customFields[name] = IF placement = "key" THEN @ ELSE predicate]

\* the tags of the tasks whose workload is asked for
WorkloadTags ==
  { None, Some(<<>>), Some(<<"a", "b", "c">>), Some(<<"Medium", "Tiny">>),
    Some(<<"Nothing">>), Some(<<"Small">>), Some(<<"other", "Tiny">>),
    Some(<<"Huge", "x", "Large", "Nothing">>) }

\* the tasks that are hydrated: with and without a due date and a completed date
LoadedTasks ==
  { [id |-> id, tags |-> tags, progress |-> progress, assigned |-> None,
     created |-> Some(DateV(0, "created")), started |-> None,
     completed |-> completed, due |-> due] :
      id \in {<<"a">>, <<"b">>},
      tags \in {None, Some(<<"Large">>)},
      progress \in {None, Some(50)},
      completed \in {None, Some(Null), Some(DateV(0, "completed")),
                     Some(DateV(2, "completed"))},
      due \in {None, Some(DateV(0, "due")), Some(DateV(1, "due"))} }

InitQuery ==
  /\ columns \in QueryBoards
  /\ columnSorting = [c \in ColumnSet |-> None]
  /\ files = [id \in TaskIds |-> None]
  /\ now \in 0..MaxTime
  /\ ops = 0
  /\ lastOp = Op("initialise", <<>>, "")
  /\ \/ /\ customFields = QueryCustomFields
        /\ \/ \E tasks \in QueryTaskLists, f \in NumericFields,
                 k \in 1..Len(NumberPredicates) :
                call = Call("filterTasks",
                            [tasks |-> tasks, filters |-> NumberFilter(f, NumberPredicates[k])])
           \/ \E tasks \in QueryTaskLists, n \in CustomNames, placement \in Placements :
                \E k \in 1..Len(CustomPredicates(n)) :
                  call = Call("filterTasks",
                              [tasks |-> tasks,
                               filters |-> CustomFilter(n, CustomPredicates(n)[k], placement)])
           \/ \E id \in {<<"a">>, <<"b">>}, p \in TaskProfiles :
                call = Call("taskProgress", [task |-> QueryTask(id, p)])
           \/ \E task \in LoadedTasks : call = Call("hydrateTask", [task |-> task])
           \/ \E tags \in WorkloadTags, p \in TaskProfiles :
                call = Call("taskWorkload",
                            [task |-> QueryTask(<<"a">>, [p EXCEPT !.tags = tags])])
     \/ /\ customFields \in {QueryCustomFields, ClashingCustomFields}
        /\ \E tasks \in QueryTaskLists, entries \in BOOLEAN :
             call = Call("filterTasks",
                         [tasks |-> tasks,
                          filters |-> IF entries THEN EmptyFilter ELSE NoFilter])

FilterTasks ==
  /\ call.fn = "filterTasks"
  /\ Returns(filterTasks(columns, customFields, call.args.tasks, call.args.filters))

TaskProgress ==
  /\ call.fn = "taskProgress"
  /\ Returns(taskProgress(columns, call.args.task))

TaskWorkload ==
  /\ call.fn = "taskWorkload"
  /\ Returns(NumV(taskWorkload(call.args.task)))

HydrateTask ==
  /\ call.fn = "hydrateTask"
  /\ Returns(hydrateTask(columns, call.args.task, now))

NextQuery == FilterTasks \/ TaskProgress \/ TaskWorkload \/ HydrateTask

SpecQuery == InitQuery /\ [][NextQuery]_vars

(***************************************************************************)
(* Calls of status and burndown on boards of one and two tasks.            *)
(***************************************************************************)
\* the time of the calls
ReportTime == 3

\* what the task files of a board can hold
LoadedProfiles ==
  { [tags |-> None, progress |-> Some(0), assigned |-> Some(<<"x">>),
     created |-> Some(DateV(1, "created")), started |-> Some(DateV(1, "started")),
     completed |-> None, due |-> None],
    [tags |-> Some(<<"Large">>), progress |-> Some(50), assigned |-> Some(<<"x">>),
     created |-> Some(DateV(0, "created")), started |-> Some(DateV(1, "started")),
     completed |-> Some(DateV(2, "completed")), due |-> Some(DateV(3, "due"))],
    [tags |-> Some(<<"Tiny">>), progress |-> None, assigned |-> Some(<<"y">>),
     created |-> Some(DateV(2, "created")), started |-> Some(DateV(2, "started")),
     completed |-> Some(DateV(3, "completed")), due |-> None],
    [tags |-> None, progress |-> None, assigned |-> None,
     created |-> Some(DateV(1, "created")), started |-> None,
     completed |-> None, due |-> Some(DateV(1, "due"))],
    [tags |-> Some(<<"Medium", "Tiny">>), progress |-> Some(0), assigned |-> None,
     created |-> Some(DateV(0, "created")), started |-> Some(DateV(0, "started")),
     completed |-> Some(Null), due |-> Some(DateV(2, "due"))],
    [tags |-> Some(<<"Small">>), progress |-> None, assigned |-> Some(<<"y">>),
     created |-> Some(DateV(1, "created")), started |-> None,
     completed |-> None, due |-> None] }

LoadedTask(taskId, profile) == [id |-> taskId] @@ profile

ReportBoards ==
  { [c1 |-> << <<"a">> >>, c2 |-> <<>>, c3 |-> <<>>],
    [c1 |-> << <<"a">> >>, c2 |-> << <<"b">> >>, c3 |-> <<>>],
    [c1 |-> <<>>, c2 |-> << <<"b">> >>, c3 |-> << <<"a">> >>],
    [c1 |-> <<>>, c2 |-> << <<"b">>, <<"a">> >>, c3 |-> <<>>] }

\* options.sprints
IndexSprints ==
  { <<>>,
    << [name |-> <<"s">>, start |-> 0] >>,
    << [name |-> <<"s">>, start |-> 0], [name |-> <<"t">>, start |-> 2] >> }

\* the sprint that status is asked for: none, a number, a name
AskedSprints == <<Null, NumV(1), NumV(2), StrV(<<"s">>), StrV(<<"u">>)>>

\* the sprints that burndown is asked for
SelectedSprints ==
  <<None, Some(<<NumV(1)>>), Some(<<StrV(<<"t">>), NumV(1)>>), Some(<<NumV(3)>>)>>

\* the dates that a call asks for
AskedDates == {<<1>>, <<2, 0>>, <<1, 1 + 7 * DayLength>>, <<7 * DayLength, 1>>}

\* the filters of burndown on the assignee and on the columns
AskedFilters == << <<Null, None>>, <<StrV(<<"x">>), None>>, <<Null, Some(<<"c2">>)>> >>

\* a call of status
StatusCall(tasks) ==
  \/ call = Call("status", [tasks |-> tasks, sprints |-> <<>>, quiet |-> TRUE,
                            due |-> FALSE, sprint |-> Null, dates |-> <<>>])
  \/ \E sprints \in IndexSprints, due \in BOOLEAN, k \in 1..Len(AskedSprints),
        dates \in {<<>>} \cup AskedDates :
       call = Call("status", [tasks |-> tasks, sprints |-> sprints, quiet |-> FALSE,
                              due |-> due, sprint |-> AskedSprints[k], dates |-> dates])

\* a call of burndown; the tasks are filtered only when the period does not depend on
\* them, and normalise = "auto" has a first series to look at
BurndownCall(tasks) ==
  \E sprints \in IndexSprints, k \in 1..Len(SelectedSprints),
     dates \in {None} \cup {Some(d) : d \in AskedDates},
     filter \in 1..Len(AskedFilters), normalise \in {"", "days", "auto"} :
    /\ sprints = <<>> => filter = 1
    /\ call = Call("burndown", [tasks |-> tasks, sprints |-> sprints,
                                selected |-> SelectedSprints[k], dates |-> dates,
                                assigned |-> AskedFilters[filter][1],
                                columns |-> AskedFilters[filter][2],
                                normalise |-> normalise])

\* the tracked tasks as loadAllTrackedTasks returns them
LoadedTasksOf(cols, profile) ==
  [i \in 1..Len(getAllTrackedTaskIds(cols)) |->
     LoadedTask(getAllTrackedTaskIds(cols)[i], profile[getAllTrackedTaskIds(cols)[i]])]

InitReport ==
  /\ columns \in ReportBoards
  /\ columnSorting = [c \in ColumnSet |-> None]
  /\ customFields = <<>>
  /\ files = [id \in TaskIds |-> None]
  /\ now = ReportTime
  /\ ops = 0
  /\ lastOp = Op("initialise", <<>>, "")
  /\ \E profile \in [{<<"a">>, <<"b">>} -> LoadedProfiles] :
       \/ StatusCall(LoadedTasksOf(columns, profile))
       \/ BurndownCall(LoadedTasksOf(columns, profile))

Status ==
  /\ call.fn = "status"
  /\ \E later \in {now, now + 1} :
       Returns(status(columns, call.args.tasks, call.args.sprints, call.args.quiet,
                      call.args.due, call.args.sprint, call.args.dates, now, later))

Burndown ==
  /\ call.fn = "burndown"
  /\ Returns(burndown(preparedTasks(columns, call.args.tasks, call.args.assigned,
                                    call.args.columns),
                      call.args.sprints, call.args.selected, call.args.dates,
                      call.args.normalise, now))

NextReport == Status \/ Burndown

SpecReport == InitReport /\ [][NextReport]_vars

(***************************************************************************)
(* Kanbn.validate, and the calls of createTask and renameTask that throw.  *)
(* A task file that has no name heading is a text with a blank name; it    *)
(* does not decode.  The index file either decodes to the columns or does  *)
(* not.  The result of a call is [threw, error, report].                   *)
(***************************************************************************)
\* an entry of the list that validate returns; task is None for null
ErrorEntry(task, message) == [task |-> task, errors |-> message]

\* the entries of the tasks that fail to load, in the order of the ids
RECURSIVE taskErrors(_, _)
taskErrors(fs, ids) ==
  IF ids = <<>> THEN <<>>
  ELSE IF loadTaskError(fs, Head(ids)) # ""
       THEN <<ErrorEntry(Some(Head(ids)), loadTaskError(fs, Head(ids)))>>
            \o taskErrors(fs, Tail(ids))
       ELSE taskErrors(fs, Tail(ids))

\* the tasks folder after validate saved again every task that loaded
RECURSIVE resaved(_, _)
resaved(fs, ids) ==
  IF ids = <<>> THEN fs
  ELSE IF loadTaskError(fs, Head(ids)) # "" THEN resaved(fs, Tail(ids))
       ELSE resaved(saveTask(fs, Head(ids), loadTask(fs, Head(ids))), Tail(ids))

\* what validate returns: true, or the list of errors
Validated(errors) == [true |-> errors = <<>>, errors |-> errors]

\* Kanbn.validate(save): [files, columns, value]; indexError is what loadIndex
\* throws, "" when the index decodes
validate(cols, sorting, fs, indexError, save) ==
  IF indexError # ""
  THEN [files |-> fs, columns |-> cols,
        value |-> Validated(<<ErrorEntry(None, indexError)>>)]
  ELSE IF save /\ saveIndexError(cols, sorting, fs, ColumnNames) # ""
  THEN [files |-> fs, columns |-> cols,
        value |-> Validated(<<ErrorEntry(None, saveIndexError(cols, sorting, fs, ColumnNames))>>)]
  ELSE [files |-> IF save THEN resaved(fs, getAllTrackedTaskIds(saveIndex(cols, sorting, fs)))
                  ELSE fs,
        columns |-> IF save THEN saveIndex(cols, sorting, fs) ELSE cols,
        value |-> Validated(taskErrors(fs, getAllTrackedTaskIds(
                                             IF save THEN saveIndex(cols, sorting, fs)
                                             ELSE cols)))]

\* the call returned
Succeeded(value) == [threw |-> FALSE, error |-> "", report |-> value]

\* the call ends with the result, the store as it was written
Answers(result, fs, cols) ==
  /\ ~Has(call.result)
  /\ call' = [call EXCEPT !.result = Some(result)]
  /\ files' = fs
  /\ columns' = cols
  /\ UNCHANGED <<columnSorting, customFields, now, ops, lastOp>>

\* a call that writes its task file, then saves the index: saveIndex may throw
\* after the file was written
AnswersSaved(written, value) ==
  IF saveIndexError(written.columns, columnSorting, written.files, ColumnNames) # ""
  THEN Answers(Failed(saveIndexError(written.columns, columnSorting, written.files,
                                     ColumnNames)),
               written.files, columns)
  ELSE Answers(Succeeded(value), written.files,
               saveIndex(written.columns, columnSorting, written.files))

(***************************************************************************)
(* Calls of validate, createTask and renameTask on stores whose task files *)
(* may be missing or undecodable, whatever the index tracks.               *)
(***************************************************************************)
CallTime == 1

\* a task file as createTask wrote it, and one whose name heading was lost
ValidFile(taskId) == encodeTask([NewTaskData(NameOf(taskId)) EXCEPT !.created = Some(0)])
BrokenFile(taskId) == [ValidFile(taskId) EXCEPT !.name = BlankName]

CallBoards ==
  { [c1 |-> <<>>, c2 |-> <<>>, c3 |-> <<>>],
    [c1 |-> << <<"a">> >>, c2 |-> <<>>, c3 |-> <<>>],
    [c1 |-> << <<"b">>, <<"a">> >>, c2 |-> <<>>, c3 |-> <<>>],
    [c1 |-> << <<"a">> >>, c2 |-> << <<"b">> >>, c3 |-> <<>>],
    [c1 |-> << <<"a">>, <<"b">> >>, c2 |-> <<>>, c3 |-> << <<"A">> >>],
    [c1 |-> << <<"b">> >>, c2 |-> << <<"A">>, <<"a">> >>, c3 |-> <<>>] }

\* no saved sorters, or the first column sorted by id
CallSortings ==
  { [c \in ColumnSet |-> None],
    [c \in ColumnSet |-> IF c = "c1" THEN Some(<<Sorter("id", <<>>, "ascending")>>) ELSE None] }

\* what loadIndex throws when the index file does not decode
IndexErrors == {"", "Unable to parse index"}

InitCalls ==
  /\ columns \in CallBoards
  /\ columnSorting \in CallSortings
  /\ customFields = <<>>
  /\ \E kept \in [TaskIds -> {"missing", "broken", "valid"}] :
       files = [id \in TaskIds |-> IF kept[id] = "missing" THEN None
                                   ELSE IF kept[id] = "broken" THEN Some(BrokenFile(id))
                                   ELSE Some(ValidFile(id))]
  /\ now = CallTime
  /\ ops = 0
  /\ lastOp = Op("initialise", <<>>, "")
  /\ \/ \E indexError \in IndexErrors, save \in BOOLEAN :
          call = Call("validate", [indexError |-> indexError, save |-> save])
     \/ \E name \in TaskNames \cup {BlankName}, columnName \in ColumnSet \cup {"Wibble"} :
          call = Call("createTask", [name |-> name, column |-> columnName])
     \/ \E taskId \in TaskIds, name \in TaskNames :
          call = Call("renameTask", [id |-> taskId, name |-> name])

CallValidate ==
  /\ call.fn = "validate"
  /\ LET r == validate(columns, columnSorting, files, call.args.indexError, call.args.save)
     IN Answers(Succeeded(r.value), r.files, r.columns)

CallCreateTask ==
  /\ call.fn = "createTask"
  /\ IF createTaskError(columns, files, call.args.name, call.args.column) # ""
     THEN Answers(Failed(createTaskError(columns, files, call.args.name, call.args.column)),
                  files, columns)
     ELSE AnswersSaved(
            [files |-> saveTask(files, getTaskId(call.args.name),
                                updateColumnLinkedCustomFields(customFields,
                                  [NewTaskData(call.args.name) EXCEPT !.created = Some(now)],
                                  call.args.column, now)),
             columns |-> addTask(columns, getTaskId(call.args.name), call.args.column, None)],
            getTaskId(call.args.name))

CallRenameTask ==
  /\ call.fn = "renameTask"
  /\ IF renameTaskError(columns, files, call.args.id, call.args.name) # ""
     THEN Answers(Failed(renameTaskError(columns, files, call.args.id, call.args.name)),
                  files, columns)
     ELSE AnswersSaved(
            [files |-> renameFile(files, call.args.id, getTaskId(call.args.name),
                                  [loadTask(files, call.args.id)
                                     EXCEPT !.name = call.args.name, !.updated = Some(now)]),
             columns |-> renameTaskInIndex(columns, call.args.id, getTaskId(call.args.name))],
            getTaskId(call.args.name))

NextCalls == CallValidate \/ CallCreateTask \/ CallRenameTask

SpecCalls == InitCalls /\ [][NextCalls]_vars

(***************************************************************************)
(* sortTasks on lists of sortable tasks                                    *)
(***************************************************************************)
\* longest list of tasks sorted
MaxSortLen == 3

SortIds == << <<"a">>, <<"b">>, <<"c">>, <<"d">> >>
SortNames == {<<"a">>, <<"A">>, <<"b">>}
SortDues == {0, 1}

\* the i-th task of a list handed to sortTasks: each task has its own Date object
SortableTask(i, name, due) ==
  [id |-> StrV(SortIds[i]), name |-> StrV(name), due |-> DateV(due, SortIds[i])]

SortableLists ==
  UNION { { [i \in 1..n |-> SortableTask(i, f[i][1], f[i][2])] :
              f \in [1..n -> SortNames \X SortDues] } : n \in 2..MaxSortLen }

SortSorterLists ==
  { << Sorter("name", <<>>, "ascending") >>,
    << Sorter("name", <<>>, "ascending"), Sorter("id", <<>>, "descending") >>,
    << Sorter("due", <<>>, "ascending"), Sorter("id", <<>>, "descending") >>,
    << Sorter("due", <<>>, "descending"), Sorter("name", <<>>, "ascending") >>,
    << Sorter("name", <<"a">>, "descending"), Sorter("due", <<>>, "ascending") >> }

InitSort ==
  /\ IdleStore
  /\ \E tasks \in SortableLists, sorters \in SortSorterLists :
       call = Call("sortTasks", [tasks |-> tasks, sorters |-> sorters])

SortTasks == Returns(sortTasks(call.args.tasks, call.args.sorters))

NextSort == SortTasks

SpecSort == InitSort /\ [][NextSort]_vars

(***************************************************************************)
(* Index.sortColumn on tasks with metadata.  A task is [id, name,          *)
(* assigned, due, testField, tags]: name is always there, the others are   *)
(* None when the metadata lacks them; testField is a custom number field   *)
(* that the spread of task.metadata copies.                                *)
(***************************************************************************)
\* the sortable task, the due date of a task without one taken as a late date
SortableOfLate(task) ==
  [id |-> StrV(task.id),
   name |-> StrV(task.name),
   assigned |-> IF Has(task.assigned) THEN StrV(Val(task.assigned)) ELSE StrV(<<>>),
   due |-> IF Has(task.due) THEN DateV(Val(task.due), task.id) ELSE DateV(9, task.id),
   testField |-> IF Has(task.testField) THEN NumV(Val(task.testField)) ELSE Undefined,
   countTags |-> NumV(IF Has(task.tags) THEN Len(Val(task.tags)) ELSE 0)]

\* the sortable task that Index.sortColumn makes of a task
SortableOf(task) ==
  [id |-> StrV(task.id),
   name |-> StrV(task.name),
   assigned |-> IF Has(task.assigned) THEN StrV(Val(task.assigned)) ELSE StrV(<<>>),
   due |-> IF Has(task.due) THEN DateV(Val(task.due), task.id) ELSE StrV(<<>>),
   testField |-> IF Has(task.testField) THEN NumV(Val(task.testField)) ELSE Undefined,
   countTags |-> NumV(IF Has(task.tags) THEN Len(Val(task.tags)) ELSE 0)]

\* Index.sortColumn: the ids of the column after the sort
sortColumnOf(tasks, sorters) ==
  LET sorted == sortTasks([i \in 1..Len(tasks) |-> SortableOf(tasks[i])], sorters)
  IN [i \in 1..Len(sorted) |-> sorted[i].id.v]

(***************************************************************************)
(* Calls of sortColumn with one sorter that has no filter.                 *)
(***************************************************************************)
MaxColumnLen == 3

\* the metadata of the tasks of a column
ColumnProfiles ==
  { [name |-> <<"a">>, assigned |-> None, due |-> None, testField |-> None, tags |-> None],
    [name |-> <<"A">>, assigned |-> Some(<<"b">>), due |-> Some(1), testField |-> Some(2),
     tags |-> Some(<<"t", "u">>)],
    [name |-> <<"b">>, assigned |-> Some(<<"a">>), due |-> Some(2), testField |-> Some(1),
     tags |-> Some(<<"t">>)],
    [name |-> <<"a", "b">>, assigned |-> Some(<<"A">>), due |-> Some(0), testField |-> Some(0),
     tags |-> Some(<<>>)] }

\* the fields sorted on, and the order of a sorter: "" when the sorter has none
SortedFields == {"id", "name", "assigned", "due", "testField", "countTags"}
SortOrders == {"ascending", "descending", ""}

\* the columns sorted: MaxColumnLen tasks, their ids in any order
ColumnTaskLists ==
  { [i \in 1..MaxColumnLen |-> [id |-> SortIds[f[i]]] @@ p[i]] :
      f \in {g \in [1..MaxColumnLen -> 1..MaxColumnLen] :
               \A i, j \in 1..MaxColumnLen : i # j => g[i] # g[j]},
      p \in [1..MaxColumnLen -> ColumnProfiles] }

InitColumn ==
  /\ IdleStore
  /\ \E tasks \in ColumnTaskLists, field \in SortedFields, order \in SortOrders :
       call = Call("sortColumn", [tasks |-> tasks, field |-> field, order |-> order])

SortColumn ==
  Returns(Succeeded(sortColumnOf(call.args.tasks,
                                 <<Sorter(call.args.field, <<>>, call.args.order)>>)))

NextColumn == SortColumn

SpecColumn == InitColumn /\ [][NextColumn]_vars

(***************************************************************************)
(* parse-index: json2md and md2json.  The text of an index file is the     *)
(* list of its blocks: a front matter block, headings of depth 1 and 2,    *)
(* paragraphs, fenced code blocks and lists.  A block that holds yaml has  *)
(* mapping = Some(m) when the yaml is the mapping m and None when it is    *)
(* not a mapping.  An index record is [name, description, options,         *)
(* columns]: options a function of the option names, columns the list of   *)
(* [name, tasks] in the order of the keys.                                 *)
(***************************************************************************)
Block(type, text, mapping, items) ==
  [type |-> type, text |-> text, mapping |-> mapping, items |-> items]

EmptyMapping == [k \in {} |-> ""]

\* the mappings written as yaml in the texts below
YamlMappings ==
  [t \in {"validOptions: test", "test: 1", "validOption: test1",
          "validOption: test2 anotherValidOption: test3"} |->
     CASE t = "validOptions: test" -> [k \in {"validOptions"} |-> "test"]
       [] t = "test: 1" -> [k \in {"test"} |-> "1"]
       [] t = "validOption: test1" -> [k \in {"validOption"} |-> "test1"]
       [] OTHER -> [k \in {"validOption", "anotherValidOption"} |->
                      IF k = "validOption" THEN "test2" ELSE "test3"]]

\* yaml text read as a mapping
yamlMapping(text) == IF text \in DOMAIN YamlMappings THEN Some(YamlMappings[text]) ELSE None

FrontMatter(text) == Block("frontMatter", text, yamlMapping(text), <<>>)
FrontMatterOf(mapping) == Block("frontMatter", "", Some(mapping), <<>>)
Heading(depth, text) == Block(IF depth = 1 THEN "h1" ELSE "h2", text, None, <<>>)
Paragraph(text) == Block("paragraph", text, yamlMapping(text), <<>>)
CodeBlock(text) == Block("code", text, yamlMapping(text), <<>>)
ListOf(items) == Block("list", "", None, items)

\* a list item: a bare id, or a link to the file of the task
BareItem(taskId) == [id |-> taskId, path |-> None]
LinkItem(taskId, folder) == [id |-> taskId, path |-> Some(<<folder, taskId, ".md">>)]

IndexRecord(name, description, options, cols) ==
  [name |-> name, description |-> description, options |-> options, columns |-> cols]

\* Object.assign(a, b)
MergeMappings(a, b) ==
  [k \in (DOMAIN a) \cup (DOMAIN b) |-> IF k \in DOMAIN b THEN b[k] ELSE a[k]]

\* the section of a column: its heading, and its tasks as links when it has any
ColumnSection(column) ==
  <<Heading(2, column.name)>> \o
  (IF column.tasks = <<>> THEN <<>>
   ELSE <<ListOf([i \in 1..Len(column.tasks) |-> LinkItem(column.tasks[i], "tasks")])>>)

RECURSIVE ColumnSections(_)
ColumnSections(cols) ==
  IF cols = <<>> THEN <<>> ELSE ColumnSection(Head(cols)) \o ColumnSections(Tail(cols))

\* json2md: front matter only for options that are not empty and not ignored, the name,
\* the description when there is one, and a section for every column
encodeIndex(data, ignoreOptions) ==
  (IF DOMAIN data.options # {} /\ ~ignoreOptions THEN <<FrontMatterOf(data.options)>> ELSE <<>>)
  \o <<Heading(1, data.name)>>
  \o (IF data.description # "" THEN <<Paragraph(data.description)>> ELSE <<>>)
  \o ColumnSections(data.columns)

\* the first block of the text from place i on that is a heading of depth 2, or the end
RECURSIVE SectionEnd(_, _)
SectionEnd(text, i) ==
  IF i > Len(text) \/ text[i].type = "h2" THEN i ELSE SectionEnd(text, i + 1)

\* columns[name] = tasks: a new key is the last, a key already there keeps its place
SetColumn(cols, name, tasks) ==
  IF \E i \in 1..Len(cols) : cols[i].name = name
  THEN [i \in 1..Len(cols) |->
          IF cols[i].name = name THEN [cols[i] EXCEPT !.tasks = tasks] ELSE cols[i]]
  ELSE Append(cols, [name |-> name, tasks |-> tasks])

\* the sections from place i on, read into the record: the section named Options is the
\* options, every other section is a column
RECURSIVE decodeSections(_, _, _)
decodeSections(text, i, data) ==
  IF i > Len(text) THEN Succeeded(data)
  ELSE LET end == SectionEnd(text, i + 1)
           body == SubSeq(text, i + 1, end - 1)
           name == text[i].text
       IN IF name = "Options"
          THEN IF body = <<>> THEN decodeSections(text, end, data)
               ELSE IF ~Has(body[1].mapping) THEN Failed("invalid options content")
               ELSE decodeSections(text, end,
                      [data EXCEPT !.options = MergeMappings(@, Val(body[1].mapping))])
          ELSE IF body = <<>>
               THEN decodeSections(text, end,
                      [data EXCEPT !.columns = SetColumn(@, name, <<>>)])
               ELSE IF body[1].type # "list" THEN Failed("column must contain a list")  \* names the column
               ELSE decodeSections(text, end,
                      [data EXCEPT !.columns =
                         SetColumn(@, name,
                                   [j \in 1..Len(body[1].items) |-> body[1].items[j].id])])

\* md2json: the record of the text of an index file, or the error it is refused with
decodeIndex(text) ==
  IF text = <<>> THEN Failed("data is null or empty")
  ELSE LET hasFront == text[1].type = "frontMatter"
           rest == IF hasFront THEN Tail(text) ELSE text
           end == SectionEnd(rest, 1)
       IN IF hasFront /\ ~Has(text[1].mapping) THEN Failed("invalid front matter content")
          ELSE IF rest = <<>> \/ rest[1].type # "h1" \/ rest[1].text = ""
          THEN Failed("data is missing a name heading")
          ELSE decodeSections(rest, end,
                 IndexRecord(rest[1].text,
                             IF end > 2 THEN rest[2].text ELSE "",
                             IF hasFront THEN Val(text[1].mapping) ELSE EmptyMapping,
                             <<>>))

(***************************************************************************)
(* Calls of the index codec: an index record encoded and decoded again,    *)
(* and the texts of the conversion tests decoded.                          *)
(***************************************************************************)
MaxIndexColumns == 2

IndexNames == {"Test Name"}
IndexDescriptions == {"", "Test description..."}
IndexOptions == {EmptyMapping, [k \in {"validOptions"} |-> "test"]}
IndexColumnNames == {"Column 1", "Column 2", "Options"}
IndexTaskLists == {<<>>, <<"Task-1">>, <<"Task-1", "Task-2">>, <<"Task-2", "Task-1">>}

\* the columns of an index: up to MaxIndexColumns columns of different names
IndexColumns ==
  UNION { { cols \in [1..n -> [name : IndexColumnNames, tasks : IndexTaskLists]] :
              \A i, j \in 1..n : i # j => cols[i].name # cols[j].name } :
          n \in 0..MaxIndexColumns }

\* texts of the md2json tests: the texts refused, and the text with front matter and an
\* Options section
IndexTexts ==
  << <<>>,
     <<Heading(1, "")>>,
     <<Paragraph("test")>>,
     <<Heading(1, "Test Name"), Paragraph("Test description..."),
       Heading(2, "Options"), Paragraph("Invalid options")>>,
     <<Heading(1, "Test Name"), Heading(2, "Column 1"), Paragraph("Invalid column contents")>>,
     <<FrontMatter("Invalid Options"), Heading(1, "Test Name")>>,
     <<FrontMatter("test: 1"), Heading(1, "Test Name"),
       Heading(2, "Options"), Paragraph("Invalid options")>>,
     <<Heading(1, "Test Name"), Paragraph("Test description..."),
       Heading(2, "Options"), Paragraph("validOptions: test")>>,
     <<Heading(1, "Test Name"), Paragraph("Test description..."),
       Heading(2, "Column 1"), ListOf(<<LinkItem("Task-1", ""), LinkItem("Task-2", "")>>),
       Heading(2, "Column 2"), ListOf(<<LinkItem("Task-1", ""), BareItem("Task-2")>>)>>,
     <<FrontMatter("validOption: test1"), Heading(1, "Test Name"),
       Paragraph("Test description..."),
       Heading(2, "Options"), CodeBlock("validOption: test2 anotherValidOption: test3"),
       Heading(2, "Column 1"), ListOf(<<LinkItem("Task-1", ""), LinkItem("Task-2", "")>>)>> >>

InitCodec ==
  /\ IdleStore
  /\ \/ \E name \in IndexNames, description \in IndexDescriptions, options \in IndexOptions,
          cols \in IndexColumns, ignoreOptions \in BOOLEAN :
          call = Call("json2md", [data |-> IndexRecord(name, description, options, cols),
                                  ignoreOptions |-> ignoreOptions])
     \/ \E i \in 1..Len(IndexTexts) : call = Call("md2json", [text |-> IndexTexts[i]])

\* the record is encoded and the text decoded again
EncodeAndDecode ==
  /\ call.fn = "json2md"
  /\ Returns(decodeIndex(encodeIndex(call.args.data, call.args.ignoreOptions)))

DecodeText ==
  /\ call.fn = "md2json"
  /\ Returns(decodeIndex(call.args.text))

NextCodec == EncodeAndDecode \/ DecodeText

SpecCodec == InitCodec /\ [][NextCodec]_vars

(***************************************************************************)
(* Calls of getTaskId with the names of up to MaxNameLen characters.       *)
(***************************************************************************)
MaxNameLen == 3

\* the characters of a name: letters of both cases and characters of the separator class
NameChars == {"a", "b", "A", "B", " ", "-", "_", "."}

AskedNames == UNION { [1..n -> NameChars] : n \in 0..MaxNameLen }

InitIds ==
  /\ IdleStore
  /\ \E name \in AskedNames : call = Call("getTaskId", [name |-> name])

GetTaskId == Returns(Succeeded(getTaskId(call.args.name)))

NextIds == GetTaskId

SpecIds == InitIds /\ [][NextIds]_vars

(***************************************************************************)
(* Two calls of createTask at once.  Every await of createTask lets the    *)
(* other call run: a call is at "start", then at "load" when the name and  *)
(* the task file are checked, at "saveTask" when it has its own copy of    *)
(* the index, at "saveIndex" when its task file is written, and "done"     *)
(* when it has written its copy of the index; a call that throws is        *)
(* "failed".  call.at and call.index hold the place and the copy of both.  *)
(***************************************************************************)
Callers == {1, 2}

InitRace ==
  /\ columns = [c \in ColumnSet |-> <<>>]
  /\ columnSorting = [c \in ColumnSet |-> None]
  /\ files = [id \in TaskIds |-> None]
  /\ now = 0
  /\ lastOp = Op("initialise", <<>>, "")
  /\ customFields = FixtureCustomFields
  /\ ops = 0
  /\ \E names \in [Callers -> TaskNames], cols \in [Callers -> ColumnSet] :
       /\ names[1] # names[2]
       /\ call = [fn |-> "createTask",
                  args |-> [p \in Callers |-> [name |-> names[p], columnName |-> cols[p]]],
                  result |-> None,
                  at |-> [p \in Callers |-> "start"],
                  index |-> [p \in Callers |-> None]]

\* the id of the task of caller p
CreatedId(p) == getTaskId(call.args[p].name)

Moves(p, place) == call' = [call EXCEPT !.at[p] = place]

\* the caller checks the name and that no file of the id exists
CheckTask(p) ==
  /\ call.at[p] = "start"
  /\ Moves(p, IF call.args[p].name = BlankName \/ taskFileExists(files, CreatedId(p))
              THEN "failed" ELSE "load")
  /\ UNCHANGED storeVars

\* the caller loads the index and checks the column and that the id is not indexed
LoadIndex(p) ==
  /\ call.at[p] = "load"
  /\ call' = [call EXCEPT
                !.index[p] = Some(columns),
                !.at[p] = IF call.args[p].columnName \notin ColumnSet
                             \/ contains(columns, CreatedId(p))
                          THEN "failed" ELSE "saveTask"]
  /\ UNCHANGED storeVars

\* the caller writes the task file
SaveTask(p) ==
  /\ call.at[p] = "saveTask"
  /\ files' = saveTask(files, CreatedId(p),
                       updateColumnLinkedCustomFields(customFields,
                         [NewTaskData(call.args[p].name) EXCEPT !.created = Some(now)],
                         call.args[p].columnName, now))
  /\ Moves(p, "saveIndex")
  /\ UNCHANGED <<columns, columnSorting, customFields, now, ops, lastOp>>

\* the caller adds the id to its copy of the index and writes the copy
SaveIndex(p) ==
  /\ call.at[p] = "saveIndex"
  /\ columns' = saveIndex(addTask(Val(call.index[p]), CreatedId(p), call.args[p].columnName,
                                  None),
                          columnSorting, files)
  /\ Moves(p, "done")
  /\ UNCHANGED <<columnSorting, customFields, files, now, ops, lastOp>>

NextRace == \E p \in Callers : CheckTask(p) \/ LoadIndex(p) \/ SaveTask(p) \/ SaveIndex(p)

SpecRace == InitRace /\ [][NextRace]_vars

(***************************************************************************)
(* Properties of the store                                                 *)
(***************************************************************************)
\* the places of the index that hold the id
Occurrences(cols, taskId) ==
  {<<c, i>> \in ColumnSet \X (1..Cardinality(TaskIds) * 2) :
     i <= Len(cols[c]) /\ cols[c][i] = taskId}

\* the number of tasks the index tracks
Tracked(cols) == Cardinality({id \in TaskIds : contains(cols, id)})

\* C1: from the empty index, after any sequence of successful createTask,
\* addUntrackedTaskToIndex, moveTask, renameTask, updateTask, deleteTask and sort
\* operations every task id occurs at most once in the whole index: never in two
\* columns, never twice in one column.
C1_IdsUnique == \A id \in TaskIds : Cardinality(Occurrences(columns, id)) <= 1

\* C1 witness: a task was moved in an index that tracks two tasks
C1_Witness == lastOp.op = "moveTask" /\ Tracked(columns) >= 2

\* the tasks are in the order the sorters define
OrderedBy(tasks, sorters) ==
  \A i, j \in 1..Len(tasks) : i < j => compareTasks(sorters, tasks[i], tasks[j]) <= 0

\* the tasks of a column as the sorters see them
ColumnTasks(cols, fs, c) ==
  [i \in 1..Len(cols[c]) |-> Sortable(loadTask(fs, cols[c][i]))]

StepOf(name) == ops' = ops - 1 /\ lastOp'.op = name

\* the step places a task with no value for the built-in date field in the column
PlacedWithout(field) ==
  \/ StepOf("createTask")
  \/ StepOf("moveTask") /\ ~Has(loadTask(files, lastOp'.id)[field])

\* the built-in date field of the placed task is the time of the step and, for a
\* task just created, its created date
StampedAtPlacing(field) ==
  /\ loadTask(files', lastOp'.id)[field] = Some(now)
  /\ StepOf("createTask") =>
       loadTask(files', lastOp'.id)[field] = loadTask(files', lastOp'.id).created

\* C2: when createTask or moveTask places a task that has no started (completed)
\* date into a column listed in the option startedColumns (completedColumns), the
\* saved task's started (completed) date is the current time; for a created task it
\* equals the created date.
C2_StartedCompletedSet ==
  [][ /\ (PlacedWithout("started") /\ lastOp'.column \in Range(startedColumns))
           => StampedAtPlacing("started")
      /\ (PlacedWithout("completed") /\ lastOp'.column \in Range(completedColumns))
           => StampedAtPlacing("completed") ]_vars

\* the update policy of the declared date field, if one is declared
DeclaredPolicy(cfs, fieldName) ==
  LET found == {i \in 1..Len(cfs) : cfs[i].name = fieldName /\ cfs[i].type = "date"}
  IN IF found = {} THEN None ELSE Some(cfs[CHOOSE i \in found : TRUE].updateDate)

\* the value of the custom date field "test" of a task, if any
TestField(fs, taskId) == loadTask(fs, taskId).customFields["test"]

\* what a move does to the date field "test" under the policy
MovedUnder(policy, linked) ==
  IF linked /\ policy = "always" THEN TestField(files', lastOp'.id) = Some(now)
  ELSE IF linked /\ policy = "once" /\ ~Has(TestField(files, lastOp'.id))
       THEN TestField(files', lastOp'.id) = Some(now)
       ELSE TestField(files', lastOp'.id) = TestField(files, lastOp'.id)

\* C3: for the declared date field "test" linked to the columns of testColumns: under
\* "once" the first move into a linked column sets it to the current time and no
\* later move changes it, under "always" every move into a linked column sets it to
\* the time of the move, with no policy no move changes it, and a move into a column
\* that is not linked never changes it.
C3_LinkedFieldPolicy ==
  [][ (StepOf("moveTask") /\ Has(DeclaredPolicy(customFields, "test")))
        => MovedUnder(Val(DeclaredPolicy(customFields, "test")),
                      lastOp'.column \in Range(testColumns)) ]_vars

\* the index of the task in its column
PositionOf(cols, taskId) == IndexOf(cols[findTaskColumn(cols, taskId)], taskId)

\* the number of the other tasks in the column
Others(cols, taskId, columnName) == Len(removeTask(cols, taskId)[columnName])

\* the moved task is in the target column at the index
MovedTo(index) ==
  /\ findTaskColumn(columns', lastOp'.id) = lastOp'.column
  /\ PositionOf(columns', lastOp'.id) = index

\* C6: moveTask(id, C, p) with an absolute position p puts the task at index
\* max(0, min(p, n)) of C, n being the number of other tasks in C, whatever the sizes
\* of the two columns; with no position the task becomes the last item of C.
C6_AbsolutePosition ==
  [][ /\ (StepOf("moveTask") /\ ~lastOp'.relative /\ Has(lastOp'.position))
          => MovedTo(Max(0, Min(Val(lastOp'.position),
                                Others(columns, lastOp'.id, lastOp'.column))))
      /\ (StepOf("moveTask") /\ ~Has(lastOp'.position))
          => MovedTo(Others(columns, lastOp'.id, lastOp'.column)) ]_vars

\* C7: moveTask(id, C, d, relative = true) puts the task at index max(0, min(i + d, n))
\* of C, i being the task's index in its column before the move and n the number of
\* other tasks in C, for every offset d: negative, zero and positive.
C7_RelativePosition ==
  [][ (StepOf("moveTask") /\ lastOp'.relative /\ Has(lastOp'.position))
        => MovedTo(Max(0, Min(PositionOf(columns, lastOp'.id) + Val(lastOp'.position),
                              Others(columns, lastOp'.id, lastOp'.column)))) ]_vars

(***************************************************************************)
(* Properties of the query engine                                          *)
(***************************************************************************)
\* the order the sorter list defines: the first sorter on which the two values do not
\* compare equal decides
RECURSIVE LexCompare(_, _, _)
LexCompare(sorters, a, b) ==
  IF sorters = <<>> THEN 0
  ELSE LET d == IF Head(sorters).order = "descending"
                THEN compareValues(SorterValue(Head(sorters), b), SorterValue(Head(sorters), a))
                ELSE compareValues(SorterValue(Head(sorters), a), SorterValue(Head(sorters), b))
       IN IF d = 0 THEN LexCompare(Tail(sorters), a, b) ELSE d

\* the place of the task in the list
PlaceIn(tasks, task) == CHOOSE i \in 1..Len(tasks) : tasks[i].id = task.id

\* sorted is the stable ordering of tasks under the sorter list
StableLexOrder(tasks, sorted, sorters) ==
  /\ Len(sorted) = Len(tasks)
  /\ Range(sorted) = Range(tasks)
  /\ \A i, j \in 1..Len(sorted) :
       i < j => \/ LexCompare(sorters, sorted[i], sorted[j]) < 0
                \/ /\ LexCompare(sorters, sorted[i], sorted[j]) = 0
                   /\ PlaceIn(tasks, sorted[i]) < PlaceIn(tasks, sorted[j])

\* C5: sortTasks returns the stable lexicographic ordering the sorter list defines: a
\* sorter on which two tasks compare equal (difference 0, or localeCompare 0) passes
\* the decision to the next sorter, and tasks equal on every sorter keep their input
\* order.
C5_StableLexicographic ==
  (call.fn = "sortTasks" /\ Has(call.result))
    => StableLexOrder(call.args.tasks, Val(call.result), call.args.sorters)

\* the progress of a task: 1 when it has a completed date or is in a completed column,
\* else its stored progress, 0 when it stores none
Progress(cols, task) ==
  IF Has(task.completed) \/ findTaskColumn(cols, task.id) \in Range(completedColumns)
  THEN Whole
  ELSE IF Has(task.progress) THEN Val(task.progress) ELSE 0

\* the value of a numeric filter field of a task
NumericField(field, cols, task) ==
  CASE field = "workload" -> taskWorkload(task)
    [] field = "progress" -> Progress(cols, task)
    [] field = "countSubTasks" -> Len(task.subTasks)
    [] field = "countTags" -> IF Has(task.tags) THEN Len(Val(task.tags)) ELSE 0
    [] field = "countRelations" -> Len(task.relations)
    [] field = "countComments" -> Len(task.comments)

\* a single number is matched exactly, several numbers are an inclusive range
InRange(predicate, x) ==
  IF predicate.kind = "array"
  THEN /\ \E i \in 1..Len(predicate.v) : predicate.v[i].v <= x
       /\ \E i \in 1..Len(predicate.v) : x <= predicate.v[i].v
  ELSE x = predicate.v

\* the tasks of the call that satisfy the test, in input order
Selected(Test(_)) == [threw |-> FALSE, tasks |-> SelectSeq(call.args.tasks, Test)]

\* what filterTasks has to return for a predicate on the numeric field
NumericSelection(field) ==
  LET Test(task) == InRange(call.args.filters.numbers[field],
                            NumericField(field, columns, task))
  IN Selected(Test)

\* C8: for each numeric filter field (workload, progress, countSubTasks, countTags,
\* countRelations, countComments) a filter given as a single number v keeps exactly the
\* tasks whose field equals v, 0 included, and a filter given as several numbers keeps
\* exactly the tasks whose field lies between the least and the greatest of them.
C8_NumericFilters ==
  \A field \in NumericFields :
    (/\ call.fn = "filterTasks"
     /\ Has(call.result)
     /\ call.args.filters.numbers[field].kind # "null")
      => Val(call.result) = NumericSelection(field)

\* the value matches the predicate under the declared type of the custom field
TypedMatch(type, predicate, value) ==
  CASE type = "number" -> InRange(predicate, value.v)
    [] type = "date" ->
         IF predicate.kind = "array" THEN InRange(predicate, value.v)
         ELSE DayOf(value.v) = DayOf(predicate.v)
    [] type = "boolean" -> value.v = predicate.v
    [] type = "string" ->
         IF predicate.kind = "array"
         THEN \E i \in 1..Len(predicate.v) : TestLiteral(predicate.v[i].v, value.v)
         ELSE TestLiteral(predicate.v, value.v)

\* what filterTasks has to return for a predicate on the declared custom field
CustomSelection(customField) ==
  LET Test(task) ==
        /\ Has(task.customFields[customField.name])
        /\ TypedMatch(customField.type, call.args.filters.customFields[customField.name],
                      Val(task.customFields[customField.name]))
  IN Selected(Test)

\* C9: when the filter carries a predicate for a declared custom field, filterTasks
\* excludes every task with no value for the field and keeps a task with a value
\* exactly when the value matches the predicate under the field's declared type.
C9_CustomFieldFilters ==
  \A i \in 1..Len(customFields) :
    (/\ call.fn = "filterTasks"
     /\ Has(call.result)
     /\ call.args.filters.customFields[customFields[i].name].kind # "undefined")
      => Val(call.result) = CustomSelection(customFields[i])

\* C10: taskProgress(task) is 1 when the task has a completed date or sits in a column
\* of completedColumns, otherwise the stored progress, and 0 when the task stores no
\* progress.
C10_TaskProgress ==
  (call.fn = "taskProgress" /\ Has(call.result))
    => Val(call.result) = NumV(Progress(columns, call.args.task))

\* the weight the table gives the tags: each tag of the table that is among them counts
\* once
RECURSIVE TableWeight(_, _, _)
TableWeight(table, names, tags) ==
  IF names = {} THEN 0
  ELSE LET name == CHOOSE n \in names : TRUE
       IN (IF name \in tags THEN table[name] ELSE 0)
            + TableWeight(table, names \ {name}, tags)

\* the tags a task carries
Carried(task) == IF Has(task.tags) THEN Range(Val(task.tags)) ELSE {}

\* C11: taskWorkload(task) is the sum of the configured weights of the tags of the
\* weight table that the task carries, and it is the default workload when the task
\* carries no tag of the table (no tags at all included); with the default table the
\* tags [a, b, c] give 2 and the tags [Medium, Tiny] give 4.
C11_TaskWorkload ==
  (call.fn = "taskWorkload" /\ Has(call.result))
    => /\ Val(call.result) =
            NumV(IF Carried(call.args.task) \cap DOMAIN DEFAULT_TASK_WORKLOAD_TAGS = {}
                 THEN DEFAULT_TASK_WORKLOAD
                 ELSE TableWeight(DEFAULT_TASK_WORKLOAD_TAGS,
                                  DOMAIN DEFAULT_TASK_WORKLOAD_TAGS,
                                  Carried(call.args.task)))
       /\ call.args.task.tags = Some(<<"a", "b", "c">>) => Val(call.result).v = 2
       /\ call.args.task.tags = Some(<<"Medium", "Tiny">>) => Val(call.result).v = 4

\* C11 witness: the workload of a task with the tags Medium and Tiny was returned
C11_Witness ==
  /\ call.fn = "taskWorkload"
  /\ Has(call.result)
  /\ call.args.task.tags = Some(<<"Medium", "Tiny">>)

\* the completed timestamp of a loaded task, if it has one
CompletedAt(task) ==
  IF Has(task.completed) /\ Val(task.completed).kind = "date"
  THEN Some(Val(task.completed).v) ELSE None

\* C12: for every task with a due date hydrateTask produces due data whose dueDelta is
\* (completed timestamp - due) when the task has a completed timestamp and (now - due)
\* otherwise, a task that is completed only by its column included, whose
\* completedDate is reported as null.
C12_DueDelta ==
  (call.fn = "hydrateTask" /\ Has(call.result) /\ Has(call.args.task.due))
    => /\ ~Val(call.result).threw
       /\ Has(Val(call.result).task.dueData)
       /\ Val(Val(call.result).task.dueData).dueDelta =
            (IF Has(CompletedAt(call.args.task)) THEN Val(CompletedAt(call.args.task))
             ELSE now) - Val(call.args.task.due).v
       /\ ~Has(CompletedAt(call.args.task))
            => Val(Val(call.result).task.dueData).completedDate = Null

(***************************************************************************)
(* Properties of status and burndown                                       *)
(***************************************************************************)
\* the call has returned without throwing
Returned(fn) == call.fn = fn /\ Has(call.result) /\ ~Val(call.result).threw

\* the report that the call has returned
Report == Val(call.result).report

\* the timestamp of the task for the property, if the task has one
Timestamp(task, property) ==
  IF Has(task[property]) /\ Val(task[property]).kind = "date"
  THEN Some(Val(task[property]).v) ELSE None

\* the end of the window of the sprint: the start of the next sprint, or now
WindowEnd(sprints, number) ==
  IF number < Len(sprints) THEN sprints[number + 1].start ELSE now

\* the tasks of the call whose timestamp lies in the window [start, end)
InWindow(property, start, end) ==
  LET Lies(task) == /\ Has(Timestamp(task, property))
                    /\ start <= Val(Timestamp(task, property))
                    /\ Val(Timestamp(task, property)) < end
  IN SelectSeq(call.args.tasks, Lies)

\* the statistics list exactly the tasks, with the sum of their workloads
Lists(statistics, tasks) ==
  /\ [i \in 1..Len(statistics.tasks) |-> statistics.tasks[i].id]
       = [i \in 1..Len(tasks) |-> tasks[i].id]
  /\ statistics.workload =
       TableWeight([i \in 1..Len(tasks) |-> taskWorkload(tasks[i])], 1..Len(tasks),
                   1..Len(tasks))

\* C13: the sprint statistics of status list, for each of created, started, completed
\* and due, exactly the tasks that have that timestamp t with sprint.start <= t < end,
\* end being the start of the next sprint, or now for the last sprint; a task without
\* the timestamp is not listed, a timestamp equal to the start of the next sprint is
\* not counted in the earlier sprint, and the workload reported is the sum of the
\* workloads of the tasks listed.
C13_SprintWindow ==
  (Returned("status") /\ Has(Report.sprint))
    => \A property \in {"created", "started", "completed", "due"} :
         Lists(Val(Report.sprint).statistics[property],
               InWindow(property, Val(Report.sprint).start,
                        WindowEnd(call.args.sprints, Val(Report.sprint).number)))

\* the tasks of the call that burndown plots: those that pass the filters asked for
Plotted ==
  LET Passes(task) ==
        /\ call.args.assigned.kind = "string" => task.assigned = Some(call.args.assigned.v)
        /\ Has(call.args.columns)
             => findTaskColumn(columns, task.id) \in Range(Val(call.args.columns))
  IN SelectSeq(call.args.tasks, Passes)

\* the windows of the call before they are normalised
Windows ==
  plottedSeries(preparedTasks(columns, call.args.tasks, call.args.assigned, call.args.columns),
                call.args.sprints, call.args.selected, call.args.dates, now)

\* the length of the unit that the timestamps of the call are truncated to: a day
\* when days are asked for, or when "auto" finds the first window seven days long or
\* longer; an hour, a minute and a second divide the unit of time
UnitLength ==
  IF \/ call.args.normalise = "days"
     \/ call.args.normalise = "auto" /\ Windows[1].to - Windows[1].from >= 7 * DayLength
  THEN DayLength ELSE 1

\* a timestamp at the resolution of the call
Truncated(t) == (t \div UnitLength) * UnitLength

\* the created, started and completed timestamps of the plotted tasks
PlottedTimestamps ==
  { Truncated(Val(Timestamp(Plotted[i], property))) :
      <<i, property>> \in
        { <<j, q>> \in (1..Len(Plotted)) \X {"created", "started", "completed"} :
            Has(Timestamp(Plotted[j], q)) } }

\* C14: for every burndown series the sample timestamps are exactly the window start,
\* the window end and every created, started or completed timestamp of a task that
\* lies inside the window: every sample timestamp lies within [from, to], no timestamp
\* occurs in two samples, and the samples are in ascending order of time.
C14_SamplePoints ==
  Returned("burndown")
    => \A k \in 1..Len(Report) :
         /\ {Report[k].dataPoints[i].x : i \in 1..Len(Report[k].dataPoints)}
              = {Report[k].from, Report[k].to}
                  \cup {t \in PlottedTimestamps : Report[k].from <= t /\ t <= Report[k].to}
         /\ \A i, j \in 1..Len(Report[k].dataPoints) :
              i < j => Report[k].dataPoints[i].x < Report[k].dataPoints[j].x

\* the plotted tasks that are active at the time: started by then, and not completed
\* or completed later
ActiveAt(t) ==
  LET Active(task) ==
        /\ Has(Timestamp(task, "started"))
        /\ Truncated(Val(Timestamp(task, "started"))) <= t
        /\ Has(Timestamp(task, "completed"))
             => Truncated(Val(Timestamp(task, "completed"))) > t
  IN SelectSeq(Plotted, Active)

\* C15: every burndown sample at the timestamp t carries y = the sum of the workloads,
\* and count = the number, of exactly the tasks with started <= t and no completed
\* timestamp or completed > t; a task completed at t is not active at t and a task
\* without a started timestamp is never active.
C15_ActiveTasks ==
  Returned("burndown")
    => \A k \in 1..Len(Report) : \A i \in 1..Len(Report[k].dataPoints) :
         /\ Report[k].dataPoints[i].count = Len(ActiveAt(Report[k].dataPoints[i].x))
         /\ Report[k].dataPoints[i].y =
              TableWeight([n \in 1..Len(ActiveAt(Report[k].dataPoints[i].x)) |->
                             taskWorkload(ActiveAt(Report[k].dataPoints[i].x)[n])],
                          1..Len(ActiveAt(Report[k].dataPoints[i].x)),
                          1..Len(ActiveAt(Report[k].dataPoints[i].x)))

\* C15 witness: a series has a sample at the time a plotted task was completed, and
\* another plotted task without a started timestamp
C15_Witness ==
  /\ Returned("burndown")
  /\ \E k \in 1..Len(Report) : \E i \in 1..Len(Report[k].dataPoints) :
       \E n \in 1..Len(Plotted) :
         /\ Timestamp(Plotted[n], "completed") = Some(Report[k].dataPoints[i].x)
         /\ Has(Timestamp(Plotted[n], "started"))
         /\ Val(Timestamp(Plotted[n], "started")) < Report[k].dataPoints[i].x
  /\ \E n \in 1..Len(Plotted) : ~Has(Timestamp(Plotted[n], "started"))

\* the sum of f over the set
RECURSIVE SumOver(_, _)
SumOver(f, set) ==
  IF set = {} THEN 0
  ELSE LET x == CHOOSE y \in set : TRUE IN f[x] + SumOver(f, set \ {x})

\* C16: status reports the total number of tracked tasks and, for every column of the
\* index, the number of task ids in the column, in quiet and in non-quiet mode; the
\* total is the sum of the counts of the columns.
C16_TaskCounts ==
  Returned("status")
    => /\ {"tasks", "columnTasks"} \subseteq DOMAIN Report
       /\ Report.columnTasks = [c \in ColumnSet |-> Len(columns[c])]
       /\ Report.tasks = SumOver(Report.columnTasks, ColumnSet)

\* the positions of the tasks of the call that satisfy the test
Positions(Test(_)) == {i \in 1..Len(call.args.tasks) : Test(call.args.tasks[i])}

\* the workload of each task of the call
Workloads == [i \in 1..Len(call.args.tasks) |-> taskWorkload(call.args.tasks[i])]

\* the remaining workload of each task of the call: ceil(workload * (1 - progress))
RemainingWorkloads ==
  [i \in 1..Len(call.args.tasks) |->
     LET left == Workloads[i] * (Whole - Progress(columns, call.args.tasks[i]))
     IN IF left % Whole = 0 THEN left \div Whole ELSE left \div Whole + 1]

\* the totals reported are those of the tasks at the positions
Totals(entry, positions) ==
  /\ entry.workload = SumOver(Workloads, positions)
  /\ entry.remainingWorkload = NumV(SumOver(RemainingWorkloads, positions))

\* C17: in a non-quiet status report totalWorkload is the sum of the workloads of all
\* tracked tasks and the sum of the workload entries of the columns,
\* totalRemainingWorkload likewise for the remaining workload, the remaining workload
\* of a task being ceil(workload * (1 - progress)), and the total, workload and
\* remainingWorkload of each assignee are the count and the sums over exactly the
\* tasks that carry the assignee.
C17_WorkloadTotals ==
  (Returned("status") /\ ~call.args.quiet)
    => /\ Report.totalWorkload = NumV(SumOver(Workloads, DOMAIN Workloads))
       /\ Report.totalRemainingWorkload =
            NumV(SumOver(RemainingWorkloads, DOMAIN RemainingWorkloads))
       /\ \A c \in ColumnSet :
            LET In(task) == findTaskColumn(columns, task.id) = c
            IN Totals(Val(Report.columnWorkloads)[c], Positions(In))
       /\ DOMAIN Val(Report.assigned) =
            {Val(call.args.tasks[i].assigned) :
               i \in {j \in 1..Len(call.args.tasks) : Has(call.args.tasks[j].assigned)}}
       /\ \A assignee \in DOMAIN Val(Report.assigned) :
            LET Carries(task) == task.assigned = Some(assignee)
            IN /\ Totals(Val(Report.assigned)[assignee], Positions(Carries))
               /\ Val(Report.assigned)[assignee].total = Cardinality(Positions(Carries))

(***************************************************************************)
(* Properties of validate and of the calls that throw                      *)
(***************************************************************************)
\* the call ended in this step
Ended(fn) == call.fn = fn /\ ~Has(call.result) /\ Has(call'.result)

\* the tracked task does not decode: its file is missing or has no name heading
FailsToDecode(taskId) == ~Has(files[taskId]) \/ Val(files[taskId]).name = BlankName

\* the tracked tasks that do not decode, in the order of the index
FailingTasks ==
  SelectSeq(getAllTrackedTaskIds(columns), LAMBDA taskId : FailsToDecode(taskId))

\* C18: validate returns a single entry with task = null when the index does not
\* decode; otherwise it returns one entry, with the task id, for each tracked task
\* that does not decode, in the order of the index, and true exactly when there is
\* none.
C18_Validate ==
  [][Ended("validate") =>
       LET value == Val(call'.result).report
       IN /\ ~Val(call'.result).threw
          /\ IF call.args.indexError # ""
             THEN value.errors = <<ErrorEntry(None, call.args.indexError)>> /\ ~value.true
             ELSE /\ Len(value.errors) = Len(FailingTasks)
                  /\ \A i \in 1..Len(FailingTasks) :
                       /\ value.errors[i].task = Some(FailingTasks[i])
                       /\ value.errors[i].errors # ""
                  /\ value.true <=> FailingTasks = <<>>]_vars

\* the store is after the step what it was before
StoreKept == files' = files /\ columns' = columns

\* C19: createTask throws 'Task name cannot be blank' when the name is blank, 'A task
\* with id ... already exists' when a file of the derived id exists, 'Column ...
\* doesn't exist' when the column is absent and 'A task with id ... is already in the
\* index' when the id is indexed: when one of the four holds the call throws the
\* message of one that holds, first of all the blank name's, and neither the index
\* nor a task file changes.
C19_CreateTaskErrors ==
  [][Ended("createTask") =>
       LET name == call.args.name
           blank == name = BlankName
           exists == taskFileExists(files, getTaskId(name))
           absent == call.args.column \notin ColumnSet
           indexed == contains(columns, getTaskId(name))
           result == Val(call'.result)
       IN (blank \/ exists \/ absent \/ indexed) =>
            /\ result.threw
            /\ StoreKept
            /\ blank => result.error = "Task name cannot be blank"
            /\ \/ blank /\ result.error = "Task name cannot be blank"
               \/ exists /\ result.error = "A task with id already exists"
               \/ absent /\ result.error = "Column doesn't exist"
               \/ indexed /\ result.error = "A task with id is already in the index"]_vars

\* createTask threw because the id, of which there is no file, is in the index
C19_Witness ==
  /\ call.fn = "createTask"
  /\ Has(call.result)
  /\ Val(call.result).threw
  /\ Val(call.result).error = "A task with id is already in the index"
  /\ contains(columns, getTaskId(call.args.name))
  /\ ~taskFileExists(files, getTaskId(call.args.name))

NoSavedSorters == \A c \in ColumnSet : ~Has(columnSorting[c])

\* C20: after a renameTask that returned, on an index without saved sorters, every
\* column has the new id where it had the old one and its other entries as they
\* were, the old id is nowhere, and the task file is under the new id and not under
\* the old one; when a file or an index entry of the new id exists the call throws
\* and changes nothing, and its message is 'already exists' or 'already in the
\* index' when the task to rename has its file and is in the index.
C20_RenameTask ==
  [][Ended("renameTask") =>
       LET old == call.args.id
           new == getTaskId(call.args.name)
           result == Val(call'.result)
       IN /\ (~result.threw /\ NoSavedSorters) =>
               /\ \A c \in ColumnSet :
                    /\ Len(columns'[c]) = Len(columns[c])
                    /\ \A i \in 1..Len(columns[c]) :
                         columns'[c][i] = IF columns[c][i] = old THEN new ELSE columns[c][i]
               /\ contains(columns', new)
               /\ ~contains(columns', old)
               /\ taskFileExists(files', new)
               /\ ~taskFileExists(files', old)
               /\ result.report = new
          /\ (taskFileExists(files, new) \/ contains(columns, new)) =>
               /\ result.threw
               /\ StoreKept
               /\ (taskFileExists(files, old) /\ contains(columns, old)) =>
                    result.error \in {"A task with id already exists",
                                      "A task with id is already in the index"}]_vars

\* renameTask returned for a task that was not the last of its column
C20_Witness ==
  /\ call.fn = "renameTask"
  /\ Has(call.result)
  /\ ~Val(call.result).threw
  /\ NoSavedSorters
  /\ \E c \in ColumnSet : \E i \in 1..(Len(columns[c]) - 1) :
       columns[c][i] = getTaskId(call.args.name)
  /\ taskFileExists(files, getTaskId(call.args.name))
  /\ ~taskFileExists(files, call.args.id)

(***************************************************************************)
(* Properties of sorting, filtering and the derivation of ids               *)
(***************************************************************************)
\* the ids that both lists hold, but for one, are in the same order in both
KeptOrder(before, after, moved) ==
  SelectSeq(before, LAMBDA id : id \in Range(after) /\ id # moved)
    = SelectSeq(after, LAMBDA id : id \in Range(before) /\ id # moved)

\* the step is a call of sort for the column, the sorters saved or not
SortOf(c) == (StepOf("sort") \/ StepOf("sortSaved")) /\ lastOp'.column = c

\* C21: sort(column, sorters, save = false) leaves the column in an order of the
\* sorters and no sorter saved for it; while no sorter is saved for a column, a task
\* created in it is appended at its end, and no operation but a sort of the column
\* changes the order of the tasks that it does not itself place.
C21_UnsavedSort ==
  [][\A c \in ColumnSet :
       /\ (StepOf("sort") /\ lastOp'.column = c) =>
            /\ ~Has(columnSorting'[c])
            /\ \E sorters \in SorterLists :
                 OrderedBy(ColumnTasks(columns', files', c), sorters)
       /\ (StepOf("createTask") /\ lastOp'.column = c /\ ~Has(columnSorting[c])) =>
            columns'[c] = Append(columns[c], lastOp'.id)
       /\ (ops' = ops - 1 /\ ~SortOf(c) /\ ~Has(columnSorting[c])) =>
            /\ ~Has(columnSorting'[c])
            /\ KeptOrder(columns[c], columns'[c], lastOp'.id)]_vars

\* C21 witness: an unsaved sort has left two tasks in descending order of their ids,
\* and no sorter is saved for the column
C21_Witness ==
  /\ lastOp.op = "sort"
  /\ ~Has(columnSorting[lastOp.column])
  /\ Len(columns[lastOp.column]) >= 2
  /\ compareValues(StrV(columns[lastOp.column][1]), StrV(columns[lastOp.column][2])) > 0

\* the fields of a sortable task that hold strings
StringFields == {"id", "name", "assigned"}

\* the task of the sorted column that has the id
TaskOf(tasks, taskId) == tasks[CHOOSE i \in 1..Len(tasks) : tasks[i].id = taskId]

\* the value of the field: '' or 0 for a task that lacks it
KeyOf(field, task) ==
  CASE field \in {"id", "name"} -> task[field]
    [] field = "countTags" -> IF Has(task.tags) THEN Len(Val(task.tags)) ELSE 0
    [] field = "assigned" -> IF Has(task.assigned) THEN Val(task.assigned) ELSE <<>>
    [] OTHER -> IF Has(task[field]) THEN Val(task[field]) ELSE 0

\* the order of two tasks on the field: strings by the locale, numbers and dates by
\* their difference
KeyCompare(field, a, b) ==
  IF field \in StringFields THEN localeCompare(KeyOf(field, a), KeyOf(field, b))
  ELSE KeyOf(field, a) - KeyOf(field, b)

\* no two tasks tie on the field
DistinctKeys(field, tasks) ==
  \A i, j \in 1..Len(tasks) : i # j => KeyCompare(field, tasks[i], tasks[j]) # 0

Reverse(s) == [i \in 1..Len(s) |-> s[Len(s) + 1 - i]]

DistinctValues(field, tasks) ==
  \A i, j \in 1..Len(tasks) : i # j => KeyOf(field, tasks[i]) # KeyOf(field, tasks[j])

FilterIsEmpty ==
  /\ call.args.filters.keys \subseteq NumericFields \cup {"customFields"}
  /\ \A f \in NumericFields : call.args.filters.numbers[f].kind = "null"
  /\ \A n \in CustomNames : call.args.filters.customFields[n].kind = "undefined"

\* C23: filterTasks with a filter that has no entries, or whose entries are all
\* null, returns every task of its input in the order of the input, whatever the
\* index declares.
C23_EmptyFilter ==
  (call.fn = "filterTasks" /\ Has(call.result) /\ FilterIsEmpty) =>
    /\ ~Val(call.result).threw
    /\ Val(call.result).tasks = call.args.tasks

C25_RoundTrip ==
  (call.fn = "json2md" /\ Has(call.result) /\ ~call.args.ignoreOptions) =>
    /\ ~Val(call.result).threw
    /\ Val(call.result).report = call.args.data

(***************************************************************************)
(* Properties of the task id                                               *)
(***************************************************************************)
\* C26: the id that getTaskId makes of a name is the one the name decides; it has no
\* upper-case letter, no whitespace and no character of the separator class but the
\* hyphens that join its words, and it neither starts nor ends with a hyphen
C26_TaskId ==
  (call.fn = "getTaskId" /\ Has(call.result)) =>
    LET id == Val(call.result).report
    IN /\ id = getTaskId(call.args.name)
       /\ \A i \in 1..Len(id) : ~IsUpper(id[i]) /\ (IsSeparator(id[i]) => id[i] = "-")
       /\ id # <<>> => id[1] # "-" /\ id[Len(id)] # "-"

(***************************************************************************)
(* Properties of two calls at once                                         *)
(***************************************************************************)
BothDone == call.fn = "createTask" /\ \A p \in Callers : call.at[p] = "done"

\* both callers loaded the index before either saved it: no copy holds the other's id
Interleaved ==
  /\ ~contains(Val(call.index[1]), CreatedId(2))
  /\ ~contains(Val(call.index[2]), CreatedId(1))

BothIndexed == \A p \in Callers : contains(columns, CreatedId(p))

\* C27: when two calls of createTask for different ids have both returned, both task
\* files exist; the saved index holds both ids when one call loaded the index after the
\* other saved it, and only one of the two ids when both loaded it before either saved
C27_LostUpdate ==
  (BothDone /\ CreatedId(1) # CreatedId(2)) =>
    /\ \A p \in Callers : taskFileExists(files, CreatedId(p))
    /\ \E p \in Callers : contains(columns, CreatedId(p))
    /\ BothIndexed <=> ~Interleaved

\* both calls returned, both files exist and the index holds one id only
C27_Witness ==
  /\ BothDone
  /\ CreatedId(1) # CreatedId(2)
  /\ \A p \in Callers : taskFileExists(files, CreatedId(p))
  /\ Interleaved
  /\ ~BothIndexed

(***************************************************************************)
(* Properties of the failures and of the files of the store                *)
(***************************************************************************)
\* C28: a call of updateTask that throws leaves the index and every task file as they
\* were before the call; the task is not renamed
C28_FailedUpdate ==
  [][StepOf("updateTaskFailed") => (files' = files /\ columns' = columns)]_vars

\* C29: after any sequence of operations on a store that starts with a file for every
\* indexed id, every id of the saved index has a task file, and findUntrackedTasks gives
\* exactly the task files whose id is not in the index
C29_NoDangling ==
  /\ \A c \in ColumnSet : \A i \in 1..Len(columns[c]) : taskFileExists(files, columns[c][i])
  /\ findUntrackedTasks(columns, files) =
       {taskId \in TaskIds : taskFileExists(files, taskId) /\ ~contains(columns, taskId)}

\* a task was taken out of the index and its file kept, beside a task that is indexed
C29_Witness ==
  /\ lastOp.op = "deleteTask"
  /\ findUntrackedTasks(columns, files) # {}
  /\ \E taskId \in TaskIds : contains(columns, taskId)

(***************************************************************************)
(* Properties of the frame of a sort                                       *)
(***************************************************************************)
\* the two lists hold the same ids, each as often in one as in the other
SameIds(before, after) ==
  /\ Len(before) = Len(after)
  /\ \A taskId \in TaskIds :
       Cardinality({i \in 1..Len(before) : before[i] = taskId})
         = Cardinality({i \in 1..Len(after) : after[i] = taskId})

\* the column is sorted by a call of sort
Sorts(c) == (StepOf("sort") \/ StepOf("sortSaved")) /\ lastOp'.column = c

\* C30: a sort only permutes the column: sortColumn with any sorters, and the sort that
\* saveIndex makes of a column with saved sorters, give the ids of the column, each as
\* often as before; a call of sort adds and removes no column and leaves the content and
\* the order of every other column as they were
C30_SortPermutes ==
  /\ [](\A c \in ColumnSet :
          /\ \A sorters \in SorterLists :
               SameIds(columns[c], sortColumn(loadAllTrackedTasks(columns, files, c), sorters))
          /\ SameIds(columns[c], saveIndex(columns, columnSorting, files)[c]))
  /\ [][\A c \in ColumnSet :
          Sorts(c) => /\ SameIds(columns[c], columns'[c])
                      /\ DOMAIN columns' = DOMAIN columns
                      /\ \A d \in ColumnSet \ {c} : columns'[d] = columns[d]]_vars

\* a column of two tasks has been sorted
C30_Witness ==
  /\ lastOp.op \in {"sort", "sortSaved"}
  /\ Len(columns[lastOp.column]) >= 2

====
